---- MODULE Spec2Model ----
(***************************************************************************)
(* The in-memory search core of eldapo: InMemoryCoreIndex (registry,       *)
(* postings, visibility sets, sort order), the filter evaluator and the    *)
(* read surface (search, read, batchGet).                                  *)
(*                                                                         *)
(* Strings are TLA+ strings; tokens are built by concatenation exactly as  *)
(* the template literals of keys.ts build them.  Bitmaps are finite sets   *)
(* of doc ids; a Map is a function whose DOMAIN is the set of its keys.    *)
(***************************************************************************)
EXTENDS Integers, Sequences, FiniteSets, TLC

(***************************************************************************)
(* Bounds of the model.                                                    *)
(***************************************************************************)
MaxIds == 2
MaxRev == 2
MaxTime == 2
MaxIngest == 2
MaxRows == 2
MaxLimit == 2
MaxBatch == 2

(***************************************************************************)
(* Program constants.                                                      *)
(***************************************************************************)
SELECTIVE_RETRIEVAL_THRESHOLD == 5000
SELECTIVE_RETRIEVAL_MAX_UNIVERSE_FRACTION_INV == 100
SEARCH_LIMIT_MIN == 1
SEARCH_LIMIT_MAX == 200

TOP_LEVEL_INDEX_FIELDS == <<"id", "type", "name", "namespace", "version", "rev">>
TOP_LEVEL_KEYS == {"id", "type", "name", "namespace", "version", "rev"}

\* The NUL delimiter of the token templates; no key or value of the model
\* contains this character.
NUL == "~"
\* JavaScript null for string-valued slots (version, next_cursor).
NullStr == "<null>"
\* JavaScript null / undefined for object-valued slots.
NULL == [kind |-> "null"]

(***************************************************************************)
(* String helpers: JavaScript string comparison, String(number),           *)
(* startsWith, endsWith, includes, toLowerCase.                            *)
(***************************************************************************)
\* Characters of the model's strings in UTF-16 code unit order ("~" stands
\* for U+0000, see NUL).
Alphabet == "~ -.0123456789:<>ABCDEFGHIJKLMNOPQRSTUVWXYZ_abcdefghijklmnopqrstuvwxyz"

\* The code unit of a character, as its position in Alphabet.
CharCodes ==
  [c \in {SubSeq(Alphabet, i, i) : i \in 1..Len(Alphabet)} |->
     CHOOSE i \in 1..Len(Alphabet) : SubSeq(Alphabet, i, i) = c]

CharCode(c) == CharCodes[c]

\* a < b for JavaScript strings (lexicographic by code unit).
RECURSIVE StrLess(_, _)
StrLess(a, b) ==
  IF Len(b) = 0 THEN FALSE
  ELSE IF Len(a) = 0 THEN TRUE
  ELSE LET ca == CharCode(SubSeq(a, 1, 1))
           cb == CharCode(SubSeq(b, 1, 1))
       IN IF ca < cb THEN TRUE
          ELSE IF ca > cb THEN FALSE
          ELSE StrLess(SubSeq(a, 2, Len(a)), SubSeq(b, 2, Len(b)))

Digit(d) == SubSeq("0123456789", d + 1, d + 1)

\* String(n) for a non-negative integer.
RECURSIVE String(_)
String(n) == IF n < 10 THEN Digit(n) ELSE String(n \div 10) \o Digit(n % 10)

startsWith(s, prefix) ==
  Len(s) >= Len(prefix) /\ SubSeq(s, 1, Len(prefix)) = prefix

endsWith(s, suffix) ==
  Len(s) >= Len(suffix) /\ SubSeq(s, Len(s) - Len(suffix) + 1, Len(s)) = suffix

includes(s, q) ==
  \E i \in 1..(Len(s) - Len(q) + 1) : SubSeq(s, i, i + Len(q) - 1) = q

UpperChars == "ABCDEFGHIJKLMNOPQRSTUVWXYZ"
LowerChars == "abcdefghijklmnopqrstuvwxyz"

\* The lower-case form of each upper-case letter.
LowerOf ==
  [c \in {SubSeq(UpperChars, i, i) : i \in 1..Len(UpperChars)} |->
     LET i == CHOOSE j \in 1..Len(UpperChars) : SubSeq(UpperChars, j, j) = c
     IN SubSeq(LowerChars, i, i)]

RECURSIVE toLowerCase(_)
toLowerCase(s) ==
  IF Len(s) = 0 THEN ""
  ELSE LET c == SubSeq(s, 1, 1)
       IN (IF c \in DOMAIN LowerOf THEN LowerOf[c] ELSE c)
          \o toLowerCase(SubSeq(s, 2, Len(s)))

Max(a, b) == IF a > b THEN a ELSE b
Min(a, b) == IF a < b THEN a ELSE b

SetMax(S) == IF S = {} THEN 0 ELSE CHOOSE x \in S : \A y \in S : y <= x

SetMin(S) == IF S = {} THEN 0 ELSE CHOOSE x \in S : \A y \in S : x <= y

\* The elements of a sequence, as a set.
Range(s) == {s[i] : i \in 1..Len(s)}

\* A Map with one key removed.
MapDelete(map, key) == [k \in (DOMAIN map) \ {key} |-> map[k]]

\* A Map with one key set.
MapSet(map, key, value) == [k \in (DOMAIN map) \cup {key} |-> IF k = key THEN value ELSE map[k]]

EmptyMap == [k \in {} |-> {}]

(***************************************************************************)
(* Entries.                                                                *)
(***************************************************************************)
IdStr(i) == "e" \o String(i)
TimeStr(i) == "2026-0" \o String(i)

Ids == {IdStr(i) : i \in 1..MaxIds}
Revs == 1..MaxRev
Times == {TimeStr(i) : i \in 1..MaxTime}
Groups == {"g1", "g2"}

\* The part of an EntryRecord other than id, rev and updated_at.
Payloads ==
  { [type |-> "skill", namespace |-> "acme", name |-> "PDF Summarize", description |-> "", version |-> "1.0",
     attrs |-> [tag |-> <<"t1">>]],
    [type |-> "rag", namespace |-> "acme", name |-> "filings", description |-> "SEC pdf", version |-> NullStr,
     attrs |-> [visibility |-> <<"restricted">>, allowed_group |-> <<"g1">>,
                tag |-> <<"t1", "t2", "t1">>, endpoint |-> <<>>]],
    [type |-> "skill", namespace |-> "acme", name |-> "notes", description |-> "", version |-> "",
     attrs |-> [visibility |-> <<"internal">>, allowed_group |-> <<"g2">>]],
    [type |-> "mcp", namespace |-> "acme", name |-> "pdf tools", description |-> "", version |-> "1.0",
     attrs |-> [visibility |-> <<"restricted">>, allowed_group |-> <<"g2", "g1">>, tag |-> <<"t2">>]] }

EntryRecord(id, rev, updated_at, p) ==
  [id |-> id, rev |-> rev, updated_at |-> updated_at,
   type |-> p.type, namespace |-> p.namespace, name |-> p.name,
   description |-> p.description, version |-> p.version, attrs |-> p.attrs]

Entries == {EntryRecord(id, rev, t, p) : id \in Ids, rev \in Revs, t \in Times, p \in Payloads}

\* The entries of the rebuild scenarios: every id and rev, one timestamp,
\* a public and a restricted payload.
RebuildEntries ==
  {e \in Entries : e.updated_at = TimeStr(1) /\ e.type \in {"skill", "rag"} /\ e.version # ""}

\* Every sequence of at most n elements of S.
RECURSIVE SeqsUpTo(_, _)
SeqsUpTo(S, n) ==
  IF n = 0 THEN {<<>>}
  ELSE LET shorter == SeqsUpTo(S, n - 1)
       IN shorter \cup {Append(s, x) : s \in {t \in shorter : Len(t) = n - 1}, x \in S}

(***************************************************************************)
(* core/keys.ts, lib/filter/compileToSql.ts: key resolution, tokens, sort  *)
(* keys, cursor predicate.                                                 *)
(***************************************************************************)
\* Variant: the prefix is stripped first and the top-level names tested on
\* what remains.
resolveFilterKeyTopFirst(inputKey) ==
  LET attrKey == IF startsWith(inputKey, "attrs.")
                 THEN SubSeq(inputKey, Len("attrs.") + 1, Len(inputKey))
                 ELSE inputKey
  IN IF attrKey = "" THEN [kind |-> "error", key |-> ""]
     ELSE IF attrKey \in TOP_LEVEL_KEYS THEN [kind |-> "top", key |-> attrKey]
     ELSE [kind |-> "attr", key |-> attrKey]

\* resolveFilterKey: kind "error" stands for the thrown invalid_filter error.
resolveFilterKey(inputKey) ==
  IF startsWith(inputKey, "attrs.")
  THEN LET attrKey == SubSeq(inputKey, Len("attrs.") + 1, Len(inputKey))
       IN IF attrKey = ""
          THEN [kind |-> "error", key |-> ""]
          ELSE [kind |-> "attr", key |-> attrKey]
  ELSE IF inputKey \in TOP_LEVEL_KEYS
       THEN [kind |-> "top", key |-> inputKey]
       ELSE [kind |-> "attr", key |-> inputKey]

resolveCoreKey(rawKey) ==
  LET resolved == resolveFilterKey(rawKey)
  IN [scope |-> resolved.kind, key |-> resolved.key]

eqToken(scope, key, value) == scope \o ":k:" \o key \o NUL \o "v:" \o value

presentToken(scope, key) == scope \o ":k:" \o key \o NUL \o "*"

compareSortKeys(aUpdatedAt, aId, bUpdatedAt, bId) ==
  IF StrLess(bUpdatedAt, aUpdatedAt) THEN -1
  ELSE IF StrLess(aUpdatedAt, bUpdatedAt) THEN 1
  ELSE IF StrLess(bId, aId) THEN -1
  ELSE IF StrLess(aId, bId) THEN 1
  ELSE 0

\* Variant: a doc equal to the cursor counts as after it.
isAfterCursorInclusive(updatedAt, id, cursor) ==
  IF StrLess(updatedAt, cursor.updated_at) THEN TRUE
  ELSE IF StrLess(cursor.updated_at, updatedAt) THEN FALSE
  ELSE ~StrLess(cursor.id, id)

isAfterCursor(updatedAt, id, cursor) ==
  IF StrLess(updatedAt, cursor.updated_at) THEN TRUE
  ELSE IF StrLess(cursor.updated_at, updatedAt) THEN FALSE
  ELSE StrLess(id, cursor.id)

\* encodeCursor: base64url of the JSON text; base64url is a bijection on
\* texts, so the cursor is represented by its JSON text.
encodeCursor(cursor) ==
  "{updated_at:" \o cursor.updated_at \o ",id:" \o cursor.id \o "}"

\* The first position at or after i where sub occurs in s, 0 when none
\* (String.prototype.indexOf, 1-based).
RECURSIVE indexOf(_, _, _)
indexOf(s, sub, i) ==
  IF i + Len(sub) - 1 > Len(s) THEN 0
  ELSE IF SubSeq(s, i, i + Len(sub) - 1) = sub THEN i
  ELSE indexOf(s, sub, i + 1)

\* decodeCursor: parses the JSON text back into {updated_at, id}; ok = FALSE
\* stands for the thrown error (JSON.parse failure or invalid cursor payload).
decodeCursor(rawCursor) ==
  LET open == "{updated_at:"
      mid == ",id:"
      at == indexOf(rawCursor, mid, Len(open) + 1)
  IN IF startsWith(rawCursor, open) /\ endsWith(rawCursor, "}") /\ at > 0
     THEN [ok |-> TRUE,
           cursor |-> [updated_at |-> SubSeq(rawCursor, Len(open) + 1, at - 1),
                       id |-> SubSeq(rawCursor, at + Len(mid), Len(rawCursor) - 1)]]
     ELSE [ok |-> FALSE, cursor |-> NULL]

(***************************************************************************)
(* lib/access.ts: canSee and readVisibility.                               *)
(***************************************************************************)
\* attrs.key ?? [] .
AttrValues(attrs, key) == IF key \in DOMAIN attrs THEN attrs[key] ELSE <<>>

readVisibility(attrs) ==
  LET values == AttrValues(attrs, "visibility")
  IN IF Len(values) > 0 /\ values[1] \in {"internal", "restricted"}
     THEN values[1]
     ELSE "public"

canSee(entry, requester) ==
  LET visibility == readVisibility(entry.attrs)
      allowedGroups == Range(AttrValues(entry.attrs, "allowed_group"))
  IN IF visibility = "public" THEN TRUE
     ELSE IF visibility = "internal" THEN requester.isAuthenticated
     ELSE IF ~requester.isAuthenticated THEN FALSE
     ELSE IF allowedGroups = {} THEN FALSE
     ELSE \E group \in requester.groups : group \in allowedGroups

(***************************************************************************)
(* core/index.ts: token bags and posting maintenance.                      *)
(***************************************************************************)
\* addTopLevelTokens: the top-level fields that yield a token, with the
\* string value indexed for each.
TopLevelValue(entry, key) ==
  IF key = "rev" THEN String(entry.rev) ELSE entry[key]

TopLevelIndexed(entry, key) ==
  IF key = "version" THEN entry.version # NullStr /\ entry.version # ""
  ELSE IF key = "rev" THEN TRUE
  ELSE entry[key] # ""

addTopLevelTokens(entry) ==
  LET keys == {k \in Range(TOP_LEVEL_INDEX_FIELDS) : TopLevelIndexed(entry, k)}
  IN [eqTokens |-> {eqToken("top", k, TopLevelValue(entry, k)) : k \in keys},
      presenceTokens |-> {presentToken("top", k) : k \in keys}]

buildTokenBag(entry) ==
  LET top == addTopLevelTokens(entry)
      attrKeys == DOMAIN entry.attrs
  IN [eqTokens |-> top.eqTokens \cup
                   UNION {{eqToken("attr", k, v) : v \in Range(entry.attrs[k])} : k \in attrKeys},
      presenceTokens |-> top.presenceTokens \cup {presentToken("attr", k) : k \in attrKeys}]

addPosting(map, token, docId) ==
  IF token \in DOMAIN map
  THEN [map EXCEPT ![token] = @ \cup {docId}]
  ELSE MapSet(map, token, {docId})

\* Variant: the posting is kept in the map after its last doc id leaves.
removePostingKeepEmpty(map, token, docId) ==
  IF token \notin DOMAIN map THEN map
  ELSE [map EXCEPT ![token] = @ \ {docId}]

removePosting(map, token, docId) ==
  IF token \notin DOMAIN map THEN map
  ELSE LET posting == map[token] \ {docId}
       IN IF posting = {} THEN MapDelete(map, token)
          ELSE [map EXCEPT ![token] = posting]

\* for (const token of tokens) this.addPosting(map, token, docId)
RECURSIVE addPostings(_, _, _)
addPostings(map, tokens, docId) ==
  IF tokens = {} THEN map
  ELSE LET token == CHOOSE t \in tokens : TRUE
       IN addPostings(addPosting(map, token, docId), tokens \ {token}, docId)

\* for (const token of tokens) this.removePosting(map, token, docId)
RECURSIVE removePostings(_, _, _)
removePostings(map, tokens, docId) ==
  IF tokens = {} THEN map
  ELSE LET token == CHOOSE t \in tokens : TRUE
       IN removePostings(removePosting(map, token, docId), tokens \ {token}, docId)

addVisibilityPosting(idx, indexed) ==
  LET visibility == readVisibility(indexed.entry.attrs)
  IN IF visibility = "public"
     THEN [idx EXCEPT !.visibilityPublic = @ \cup {indexed.docId}]
     ELSE IF visibility = "internal"
     THEN [idx EXCEPT !.visibilityInternal = @ \cup {indexed.docId}]
     ELSE [idx EXCEPT !.visibilityRestricted = @ \cup {indexed.docId},
                      !.groupToPosting =
                         addPostings(@, Range(AttrValues(indexed.entry.attrs, "allowed_group")),
                                     indexed.docId)]

\* Variant: a restricted doc leaves the restricted set but not its groups.
removeVisibilityPostingKeepGroups(idx, indexed) ==
  LET visibility == readVisibility(indexed.entry.attrs)
  IN IF visibility = "public"
     THEN [idx EXCEPT !.visibilityPublic = @ \ {indexed.docId}]
     ELSE IF visibility = "internal"
     THEN [idx EXCEPT !.visibilityInternal = @ \ {indexed.docId}]
     ELSE [idx EXCEPT !.visibilityRestricted = @ \ {indexed.docId}]

removeVisibilityPosting(idx, indexed) ==
  LET visibility == readVisibility(indexed.entry.attrs)
  IN IF visibility = "public"
     THEN [idx EXCEPT !.visibilityPublic = @ \ {indexed.docId}]
     ELSE IF visibility = "internal"
     THEN [idx EXCEPT !.visibilityInternal = @ \ {indexed.docId}]
     ELSE [idx EXCEPT !.visibilityRestricted = @ \ {indexed.docId},
                      !.groupToPosting =
                         removePostings(@, Range(AttrValues(indexed.entry.attrs, "allowed_group")),
                                        indexed.docId)]

addEntryToIndexes(idx, indexed) ==
  LET tokens == buildTokenBag(indexed.entry)
      posted == [idx EXCEPT
                   !.tokenToPosting = addPostings(@, tokens.eqTokens, indexed.docId),
                   !.presenceToPosting = addPostings(@, tokens.presenceTokens, indexed.docId),
                   !.universe = @ \cup {indexed.docId}]
      visible == addVisibilityPosting(posted, indexed)
  IN [visible EXCEPT !.updatedOrder = Append(@, indexed.docId)]

\* Variant: the presence tokens of the outgoing revision are left behind.
removeEntryFromIndexesKeepPresence(idx, indexed) ==
  LET tokens == buildTokenBag(indexed.entry)
      posted == [idx EXCEPT
                   !.tokenToPosting = removePostings(@, tokens.eqTokens, indexed.docId),
                   !.universe = @ \ {indexed.docId}]
      visible == removeVisibilityPosting(posted, indexed)
  IN [visible EXCEPT !.updatedOrder = SelectSeq(@, LAMBDA docId : docId # indexed.docId)]

removeEntryFromIndexes(idx, indexed) ==
  LET tokens == buildTokenBag(indexed.entry)
      posted == [idx EXCEPT
                   !.tokenToPosting = removePostings(@, tokens.eqTokens, indexed.docId),
                   !.presenceToPosting = removePostings(@, tokens.presenceTokens, indexed.docId),
                   !.universe = @ \ {indexed.docId}]
      visible == removeVisibilityPosting(posted, indexed)
  IN [visible EXCEPT !.updatedOrder = SelectSeq(@, LAMBDA docId : docId # indexed.docId)]

\* buildIndexedDoc: the entry with its doc id and the case-folded name and
\* description (the card projection is a pure function of the entry).
buildIndexedDoc(docId, entry) ==
  [docId |-> docId, entry |-> entry,
   nameLower |-> toLowerCase(entry.name),
   descriptionLower |-> toLowerCase(entry.description)]

\* Array.prototype.sort with the compareSortKeys comparator over the registry keys.
RECURSIVE SortDocIds(_, _)
SortDocIds(docs, remaining) ==
  IF remaining = {} THEN <<>>
  ELSE LET first == CHOOSE d \in remaining :
                      \A o \in remaining \ {d} :
                        compareSortKeys(docs[d].entry.updated_at, docs[d].entry.id,
                                        docs[o].entry.updated_at, docs[o].entry.id) < 0
       IN <<first>> \o SortDocIds(docs, remaining \ {first})

\* Variant: the vector is ranked as the upserts left it, without sorting.
resortUpdatedOrderUnsorted(idx) ==
  LET order == idx.updatedOrder
  IN [idx EXCEPT !.docSortRank = [d \in Range(order) |->
                                    (CHOOSE i \in 1..Len(order) : order[i] = d) - 1]]

resortUpdatedOrder(idx) ==
  LET order == SortDocIds(idx.docs, DOMAIN idx.docs)
  IN [idx EXCEPT !.updatedOrder = order,
                 !.docSortRank = [d \in Range(order) |->
                                    (CHOOSE i \in 1..Len(order) : order[i] = d) - 1]]

\* Variant: the doc id counter advances on every upsert, not only on a new id.
upsertEntryCounting(idx, entry, resortAfter) ==
  IF entry.id \in DOMAIN idx.idToDoc
  THEN LET existingDocId == idx.idToDoc[entry.id]
           existingDoc == idx.docs[existingDocId]
       IN IF existingDoc.entry.rev > entry.rev THEN idx
          ELSE LET removed == removeEntryFromIndexes(idx, existingDoc)
                   nextDoc == buildIndexedDoc(existingDocId, entry)
                   stored == [removed EXCEPT !.nextDocId = @ + 1,
                                             !.docs = MapSet(@, existingDocId, nextDoc)]
                   added == addEntryToIndexes(stored, nextDoc)
               IN IF resortAfter THEN resortUpdatedOrder(added) ELSE added
  ELSE LET newDocId == idx.nextDocId
           indexed == buildIndexedDoc(newDocId, entry)
           stored == [idx EXCEPT !.nextDocId = @ + 1,
                                 !.idToDoc = MapSet(@, entry.id, newDocId),
                                 !.docs = MapSet(@, newDocId, indexed)]
           added == addEntryToIndexes(stored, indexed)
       IN IF resortAfter THEN resortUpdatedOrder(added) ELSE added

\* Variant: a known id is moved to a fresh doc id on every accepted upsert.
upsertEntryFreshId(idx, entry, resortAfter) ==
  LET known == entry.id \in DOMAIN idx.idToDoc
  IN IF known /\ idx.docs[idx.idToDoc[entry.id]].entry.rev > entry.rev THEN idx
     ELSE LET removed == IF known
                         THEN LET old == idx.docs[idx.idToDoc[entry.id]]
                              IN [removeEntryFromIndexes(idx, old) EXCEPT
                                    !.docs = MapDelete(@, old.docId)]
                         ELSE idx
              newDocId == removed.nextDocId
              indexed == buildIndexedDoc(newDocId, entry)
              stored == [removed EXCEPT !.nextDocId = @ + 1,
                                        !.idToDoc = MapSet(@, entry.id, newDocId),
                                        !.docs = MapSet(@, newDocId, indexed)]
              added == addEntryToIndexes(stored, indexed)
          IN IF resortAfter THEN resortUpdatedOrder(added) ELSE added

\* Variant: the doc id counter is not advanced after a new id takes it.
upsertEntryNoAdvance(idx, entry, resortAfter) ==
  IF entry.id \in DOMAIN idx.idToDoc
  THEN LET existingDocId == idx.idToDoc[entry.id]
           existingDoc == idx.docs[existingDocId]
       IN IF existingDoc.entry.rev > entry.rev THEN idx
          ELSE LET removed == removeEntryFromIndexes(idx, existingDoc)
                   nextDoc == buildIndexedDoc(existingDocId, entry)
                   stored == [removed EXCEPT !.docs = MapSet(@, existingDocId, nextDoc)]
                   added == addEntryToIndexes(stored, nextDoc)
               IN IF resortAfter THEN resortUpdatedOrder(added) ELSE added
  ELSE LET newDocId == idx.nextDocId
           indexed == buildIndexedDoc(newDocId, entry)
           stored == [idx EXCEPT !.idToDoc = MapSet(@, entry.id, newDocId),
                                 !.docs = MapSet(@, newDocId, indexed)]
           added == addEntryToIndexes(stored, indexed)
       IN IF resortAfter THEN resortUpdatedOrder(added) ELSE added

upsertEntry(idx, entry, resortAfter) ==
  IF entry.id \in DOMAIN idx.idToDoc
  THEN LET existingDocId == idx.idToDoc[entry.id]
           existingDoc == idx.docs[existingDocId]
       IN IF existingDoc.entry.rev > entry.rev THEN idx
          ELSE LET removed == removeEntryFromIndexes(idx, existingDoc)
                   nextDoc == buildIndexedDoc(existingDocId, entry)
                   stored == [removed EXCEPT !.docs = MapSet(@, existingDocId, nextDoc)]
                   added == addEntryToIndexes(stored, nextDoc)
               IN IF resortAfter THEN resortUpdatedOrder(added) ELSE added
  ELSE LET newDocId == idx.nextDocId
           indexed == buildIndexedDoc(newDocId, entry)
           stored == [idx EXCEPT !.nextDocId = @ + 1,
                                 !.idToDoc = MapSet(@, entry.id, newDocId),
                                 !.docs = MapSet(@, newDocId, indexed)]
           added == addEntryToIndexes(stored, indexed)
       IN IF resortAfter THEN resortUpdatedOrder(added) ELSE added

\* reset: the state of a freshly constructed index.
reset ==
  [nextDocId |-> 1,
   idToDoc |-> EmptyMap,
   docs |-> EmptyMap,
   tokenToPosting |-> EmptyMap,
   presenceToPosting |-> EmptyMap,
   visibilityPublic |-> {},
   visibilityInternal |-> {},
   visibilityRestricted |-> {},
   groupToPosting |-> EmptyMap,
   universe |-> {},
   updatedOrder |-> <<>>,
   docSortRank |-> EmptyMap]

\* for (const row of rows) this.upsertEntry(row, false)
RECURSIVE upsertRows(_, _)
upsertRows(idx, rows) ==
  IF rows = <<>> THEN idx
  ELSE upsertRows(upsertEntry(idx, Head(rows), FALSE), Tail(rows))

buildFromSnapshot(idx, rows) == resortUpdatedOrder(upsertRows(reset, rows))

\* Variant: the comparison of the stored rev with the change's rev is inverted.
applyChangeInverted(idx, change, row) ==
  IF row = NULL THEN idx
  ELSE IF change.id \in DOMAIN idx.idToDoc
          /\ idx.docs[idx.idToDoc[change.id]].entry.rev < change.rev
       THEN idx
       ELSE upsertEntry(idx, row, TRUE)

\* Variant: the change is installed without resorting updatedOrder.
applyChangeDeferringSort(idx, change, row) ==
  IF row = NULL THEN idx
  ELSE IF change.id \in DOMAIN idx.idToDoc
          /\ idx.docs[idx.idToDoc[change.id]].entry.rev > change.rev
       THEN idx
       ELSE upsertEntry(idx, row, FALSE)

applyChange(idx, change, row) ==
  IF row = NULL THEN idx
  ELSE IF change.id \in DOMAIN idx.idToDoc
          /\ idx.docs[idx.idToDoc[change.id]].entry.rev > change.rev
       THEN idx
       ELSE upsertEntry(idx, row, TRUE)

(***************************************************************************)
(* core/eval.ts: the filter evaluator.  A filter AST is a record           *)
(*   [kind |-> "eq", key, value], [kind |-> "present", key],               *)
(*   [kind |-> "and" / "or", children |-> <<...>>], [kind |-> "not", child]*)
(* A result with err = TRUE stands for the thrown invalid_filter error.    *)
(* A bitmap is an object: ref says which one.  The bitmaps the index       *)
(* stores are named by their token, the universe is UniverseRef, and       *)
(* every other bitmap (new RoaringBitmap32(), clone()) is Fresh.  touched  *)
(* collects the stored bitmaps that an in-place operation or dispose() was *)
(* applied to.                                                             *)
(***************************************************************************)
Fresh == "<new>"

UniverseRef == "<universe>"

\* The stored bitmap behind a ref, if any.
stored(ref) == IF ref = Fresh THEN {} ELSE {ref}

\* this.getPosting(token): found = FALSE is the null result.
getPosting(idx, token) ==
  IF endsWith(token, NUL \o "*")
  THEN IF token \in DOMAIN idx.presenceToPosting
       THEN [found |-> TRUE, bitmap |-> idx.presenceToPosting[token], ref |-> token]
       ELSE [found |-> FALSE, bitmap |-> {}, ref |-> Fresh]
  ELSE IF token \in DOMAIN idx.tokenToPosting
       THEN [found |-> TRUE, bitmap |-> idx.tokenToPosting[token], ref |-> token]
       ELSE [found |-> FALSE, bitmap |-> {}, ref |-> Fresh]

\* { bitmap, owned }
EvalResult(bitmap, owned, ref, touched) ==
  [bitmap |-> bitmap, owned |-> owned, err |-> FALSE, ref |-> ref, touched |-> touched]

\* Variant: a stored posting is handed out as if the evaluator owned it.
borrowPostingAsOwned(posting) ==
  IF ~posting.found
  THEN EvalResult({}, TRUE, Fresh, {})
  ELSE EvalResult(posting.bitmap, TRUE, posting.ref, {})

borrowPosting(posting) ==
  IF ~posting.found
  THEN EvalResult({}, TRUE, Fresh, {})
  ELSE EvalResult(posting.bitmap, FALSE, posting.ref, {})

EvalError == [bitmap |-> {}, owned |-> TRUE, err |-> TRUE, ref |-> Fresh, touched |-> {}]

\* if (childResult.owned) childResult.bitmap.dispose()
disposeOwned(childResult) ==
  IF childResult.owned THEN stored(childResult.ref) ELSE {}

\* The token a leaf node looks up; err when the key does not resolve.
LeafToken(ast) ==
  LET resolved == resolveCoreKey(ast.key)
  IN IF resolved.scope = "error" THEN [err |-> TRUE, token |-> ""]
     ELSE [err |-> FALSE,
           token |-> IF ast.kind = "eq"
                     THEN eqToken(resolved.scope, resolved.key, ast.value)
                     ELSE presentToken(resolved.scope, resolved.key)]

RECURSIVE SumEstimates(_)
SumEstimates(ests) ==
  IF ests = <<>> THEN 0 ELSE Head(ests).n + SumEstimates(Tail(ests))

\* Variant: the estimate of the first child stands for the minimum.
MinEstimatesFirst(ests) == Head(ests).n

RECURSIVE MinEstimates(_)
MinEstimates(ests) ==
  IF Len(ests) = 1 THEN Head(ests).n ELSE Min(Head(ests).n, MinEstimates(Tail(ests)))

RECURSIVE estimateCardinality(_, _)
estimateCardinality(ast, idx) ==
  IF ast.kind \in {"eq", "present"}
  THEN LET leaf == LeafToken(ast)
       IN IF leaf.err THEN [err |-> TRUE, n |-> 0]
          ELSE [err |-> FALSE, n |-> Cardinality(getPosting(idx, leaf.token).bitmap)]
  ELSE IF ast.kind = "and"
  THEN IF Len(ast.children) = 0 THEN [err |-> FALSE, n |-> 0]
       ELSE LET ests == [i \in 1..Len(ast.children) |-> estimateCardinality(ast.children[i], idx)]
            IN IF \E i \in 1..Len(ests) : ests[i].err THEN [err |-> TRUE, n |-> 0]
               ELSE [err |-> FALSE, n |-> MinEstimates(ests)]
  ELSE IF ast.kind = "or"
  THEN LET ests == [i \in 1..Len(ast.children) |-> estimateCardinality(ast.children[i], idx)]
       IN IF \E i \in 1..Len(ests) : ests[i].err THEN [err |-> TRUE, n |-> 0]
          ELSE [err |-> FALSE, n |-> SumEstimates(ests)]
  ELSE LET est == estimateCardinality(ast.child, idx)
       IN IF est.err THEN est
          ELSE [err |-> FALSE, n |-> Max(0, Cardinality(idx.universe) - est.n)]

\* [...children].sort((l, r) => estimate(l) - estimate(r)): a stable sort;
\* positions are ordered by (estimate, position).
RECURSIVE SortPositions(_, _)
SortPositions(ests, remaining) ==
  IF remaining = {} THEN <<>>
  ELSE LET first == CHOOSE i \in remaining :
                      \A j \in remaining \ {i} :
                        ests[i].n < ests[j].n \/ (ests[i].n = ests[j].n /\ i < j)
       IN <<first>> \o SortPositions(ests, remaining \ {first})

RECURSIVE evalNode(_, _)
RECURSIVE andLoop(_, _, _, _)
RECURSIVE orLoop(_, _, _)

\* Variant: a later child is disposed without being intersected.
andStepFirstOnly(first, accumulator, childResult) ==
  IF first
  THEN EvalResult(childResult.bitmap, TRUE,
                  IF childResult.owned THEN childResult.ref ELSE Fresh,
                  childResult.touched)
  ELSE EvalResult(accumulator.bitmap, TRUE, accumulator.ref,
                  accumulator.touched \cup childResult.touched
                    \cup disposeOwned(childResult))

\* One round of the 'and' loop: the accumulator after childResult.  The
\* first child becomes the accumulator, cloned unless owned; every later
\* one is intersected into it in place and disposed if owned.
andStep(first, accumulator, childResult) ==
  IF first
  THEN EvalResult(childResult.bitmap, TRUE,
                  IF childResult.owned THEN childResult.ref ELSE Fresh,
                  childResult.touched)
  ELSE EvalResult(accumulator.bitmap \cap childResult.bitmap, TRUE, accumulator.ref,
                  accumulator.touched \cup childResult.touched
                    \cup stored(accumulator.ref) \cup disposeOwned(childResult))

andNext(children, next, idx) ==
  IF next.bitmap = {} THEN next ELSE andLoop(children, FALSE, next, idx)

andChild(children, first, accumulator, childResult, idx) ==
  IF childResult.err THEN EvalError
  ELSE andNext(children, andStep(first, accumulator, childResult), idx)

\* The loop of the 'and' case: first is TRUE while the accumulator is null.
andLoop(children, first, accumulator, idx) ==
  IF children = <<>> THEN accumulator
  ELSE andChild(Tail(children), first, accumulator, evalNode(Head(children), idx), idx)

\* accumulator.orInPlace(childResult.bitmap) and the dispose after it.
orStep(accumulator, childResult) ==
  EvalResult(accumulator.bitmap \cup childResult.bitmap, TRUE, accumulator.ref,
             accumulator.touched \cup childResult.touched
               \cup stored(accumulator.ref) \cup disposeOwned(childResult))

orChild(children, accumulator, childResult, idx) ==
  IF childResult.err THEN EvalError
  ELSE orLoop(children, orStep(accumulator, childResult), idx)

\* The loop of the 'or' case.
orLoop(children, accumulator, idx) ==
  IF children = <<>> THEN accumulator
  ELSE orChild(Tail(children), accumulator, evalNode(Head(children), idx), idx)

\* The 'not' case: universe.clone().andNotInPlace(child), child disposed
\* if owned.
notStep(idx, childResult) ==
  IF childResult.err THEN EvalError
  ELSE EvalResult(idx.universe \ childResult.bitmap, TRUE, Fresh,
                  childResult.touched \cup disposeOwned(childResult))

evalNode(ast, idx) ==
  IF ast.kind \in {"eq", "present"}
  THEN LET leaf == LeafToken(ast)
       IN IF leaf.err THEN EvalError ELSE borrowPosting(getPosting(idx, leaf.token))
  ELSE IF ast.kind = "and"
  THEN IF Len(ast.children) = 0 THEN EvalResult({}, TRUE, Fresh, {})
       ELSE LET ests == [i \in 1..Len(ast.children) |-> estimateCardinality(ast.children[i], idx)]
            IN IF Len(ast.children) > 1 /\ \E i \in 1..Len(ests) : ests[i].err
               THEN EvalError
               ELSE LET order == SortPositions(ests, 1..Len(ests))
                        sortedChildren == [k \in 1..Len(order) |-> ast.children[order[k]]]
                    IN andLoop(sortedChildren, TRUE, EvalResult({}, TRUE, Fresh, {}), idx)
  ELSE IF ast.kind = "or"
  THEN IF Len(ast.children) = 0 THEN EvalResult({}, TRUE, Fresh, {})
       ELSE orLoop(ast.children, EvalResult({}, TRUE, Fresh, {}), idx)
  ELSE notStep(idx, evalNode(ast.child, idx))

\* The bitmap handed to the caller: result.bitmap itself when owned, a
\* clone when borrowed.
handOver(result) ==
  [bitmap |-> result.bitmap, err |-> result.err,
   ref |-> IF result.owned THEN result.ref ELSE Fresh, touched |-> result.touched]

evaluateFilterAst(ast, idx) == handOver(evalNode(ast, idx))

(***************************************************************************)
(* core/index.ts: the read surface.                                        *)
(***************************************************************************)
\* Variant: the internal set is added before the authentication test.
getAllowedDocsInternalFirst(idx, requester) ==
  IF ~requester.isAuthenticated THEN idx.visibilityPublic \cup idx.visibilityInternal
  ELSE IF requester.groups = {} THEN idx.visibilityPublic \cup idx.visibilityInternal
  ELSE idx.visibilityPublic \cup idx.visibilityInternal \cup
       UNION {idx.groupToPosting[g] : g \in requester.groups \cap DOMAIN idx.groupToPosting}

getAllowedDocs(idx, requester) ==
  IF ~requester.isAuthenticated THEN idx.visibilityPublic
  ELSE IF requester.groups = {} THEN idx.visibilityPublic \cup idx.visibilityInternal
  ELSE idx.visibilityPublic \cup idx.visibilityInternal \cup
       UNION {idx.groupToPosting[g] : g \in requester.groups \cap DOMAIN idx.groupToPosting}

matchesQuery(indexed, q) ==
  includes(indexed.nameLower, q) \/ includes(indexed.descriptionLower, q)

\* String.prototype.trim for the blank character.
RECURSIVE trimStart(_)
trimStart(s) ==
  IF Len(s) > 0 /\ SubSeq(s, 1, 1) = " " THEN trimStart(SubSeq(s, 2, Len(s))) ELSE s

RECURSIVE trimEnd(_)
trimEnd(s) ==
  IF Len(s) > 0 /\ SubSeq(s, Len(s), Len(s)) = " " THEN trimEnd(SubSeq(s, 1, Len(s) - 1)) ELSE s

trim(s) == trimEnd(trimStart(s))

Hit(indexed) == [entry |-> indexed.entry]

CursorOf(indexed) ==
  encodeCursor([updated_at |-> indexed.entry.updated_at, id |-> indexed.entry.id])

\* The tests every collect loop applies to a doc before taking it.
Passes(indexed, options, q) ==
  /\ options.cursor = NULL
     \/ isAfterCursor(indexed.entry.updated_at, indexed.entry.id, options.cursor)
  /\ q = NullStr \/ matchesQuery(indexed, q)

\* The loop of collectScanResults and collectScanAllowedResults over
\* updatedOrder from position i on.
RECURSIVE scanLoop(_, _, _, _, _, _, _)
scanLoop(idx, members, options, q, limit, i, items) ==
  IF i > Len(idx.updatedOrder) THEN [items |-> items, next_cursor |-> NullStr]
  ELSE LET docId == idx.updatedOrder[i]
       IN IF docId \notin members \/ docId \notin DOMAIN idx.docs
             \/ ~Passes(idx.docs[docId], options, q)
          THEN scanLoop(idx, members, options, q, limit, i + 1, items)
          ELSE LET taken == Append(items, Hit(idx.docs[docId]))
               IN IF Len(taken) >= limit
                  THEN [items |-> taken, next_cursor |-> CursorOf(idx.docs[docId])]
                  ELSE scanLoop(idx, members, options, q, limit, i + 1, taken)

collectScanResults(idx, candidates, options, q, limit) ==
  scanLoop(idx, candidates, options, q, limit, 1, <<>>)

collectScanAllowedResults(idx, allowed, options, q, limit) ==
  scanLoop(idx, allowed, options, q, limit, 1, <<>>)

\* insertTopDoc: insert by rank into the bounded buffer.
RECURSIVE insertAt(_, _, _, _)
insertAt(idx, topDocs, candidateRank, at) ==
  IF at > 0 /\ topDocs[at].docId \in DOMAIN idx.docSortRank
     /\ candidateRank < idx.docSortRank[topDocs[at].docId]
  THEN insertAt(idx, topDocs, candidateRank, at - 1)
  ELSE at

\* Variant: the candidate is appended without consulting its rank.
insertTopDocUnranked(idx, topDocs, candidate, limit) ==
  IF candidate.docId \notin DOMAIN idx.docSortRank THEN topDocs
  ELSE LET spliced == Append(topDocs, candidate)
       IN IF Len(spliced) > limit THEN SubSeq(spliced, 1, Len(spliced) - 1) ELSE spliced

insertTopDoc(idx, topDocs, candidate, limit) ==
  IF candidate.docId \notin DOMAIN idx.docSortRank THEN topDocs
  ELSE LET at == insertAt(idx, topDocs, idx.docSortRank[candidate.docId], Len(topDocs))
           spliced == SubSeq(topDocs, 1, at) \o <<candidate>> \o SubSeq(topDocs, at + 1, Len(topDocs))
       IN IF Len(spliced) > limit THEN SubSeq(spliced, 1, Len(spliced) - 1) ELSE spliced

\* for (const docId of candidates): ascending doc ids.
RECURSIVE selectLoop(_, _, _, _, _, _)
selectLoop(idx, remaining, options, q, limit, topDocs) ==
  IF remaining = {} THEN topDocs
  ELSE LET docId == CHOOSE d \in remaining : \A o \in remaining : d <= o
           rest == remaining \ {docId}
       IN IF docId \notin DOMAIN idx.docs \/ ~Passes(idx.docs[docId], options, q)
          THEN selectLoop(idx, rest, options, q, limit, topDocs)
          ELSE selectLoop(idx, rest, options, q, limit,
                          insertTopDoc(idx, topDocs, idx.docs[docId], limit))

\* Variant: the cursor of the last emitted doc is returned even when fewer
\* than limit items were produced.
RECURSIVE emitLoopAlwaysCursor(_, _, _, _)
emitLoopAlwaysCursor(topDocs, limit, i, items) ==
  IF i > Len(topDocs)
  THEN [items |-> items,
        next_cursor |-> IF topDocs = <<>> THEN NullStr ELSE CursorOf(topDocs[Len(topDocs)])]
  ELSE emitLoopAlwaysCursor(topDocs, limit, i + 1, Append(items, Hit(topDocs[i])))

\* The emitting loop of collectSelectiveResults.
RECURSIVE emitLoop(_, _, _, _)
emitLoop(topDocs, limit, i, items) ==
  IF i > Len(topDocs) THEN [items |-> items, next_cursor |-> NullStr]
  ELSE LET taken == Append(items, Hit(topDocs[i]))
       IN IF Len(taken) >= limit
          THEN [items |-> taken, next_cursor |-> CursorOf(topDocs[i])]
          ELSE emitLoop(topDocs, limit, i + 1, taken)

collectSelectiveResults(idx, candidates, options, q, limit) ==
  emitLoop(selectLoop(idx, candidates, options, q, limit, <<>>), limit, 1, <<>>)

EmptyResult == [items |-> <<>>, next_cursor |-> NullStr, err |-> FALSE]

\* The result of a search that ran to its end.
Found(r) == [items |-> r.items, next_cursor |-> r.next_cursor, err |-> FALSE]

\* search from the strategy choice on.
searchCandidates(idx, options, q, limit, candidates) ==
  IF candidates = {} THEN EmptyResult
  ELSE LET selectiveByThreshold ==
             Cardinality(candidates) <= SELECTIVE_RETRIEVAL_THRESHOLD
           selectiveByRatio ==
             /\ Cardinality(idx.universe) > 0
             /\ Cardinality(candidates) <=
                  Cardinality(idx.universe) \div SELECTIVE_RETRIEVAL_MAX_UNIVERSE_FRACTION_INV
       IN IF selectiveByThreshold \/ selectiveByRatio
          THEN Found(collectSelectiveResults(idx, candidates, options, q, limit))
          ELSE Found(collectScanResults(idx, candidates, options, q, limit))

\* search from the evaluation of the filter on.
searchEvaluated(idx, options, q, limit, allowed, evaluated) ==
  IF evaluated.err THEN [items |-> <<>>, next_cursor |-> NullStr, err |-> TRUE]
  ELSE IF evaluated.bitmap = {} THEN EmptyResult
  ELSE searchCandidates(idx, options, q, limit, evaluated.bitmap \cap allowed)

\* search once limit, q and the allowed set are computed.
searchAllowed(idx, filterAst, options, q, limit, allowed) ==
  IF allowed = {} THEN EmptyResult
  ELSE IF filterAst = NULL
  THEN Found(collectScanAllowedResults(idx, allowed, options, q, limit))
  ELSE searchEvaluated(idx, options, q, limit, allowed, evaluateFilterAst(filterAst, idx))

\* const q = options.q?.trim().toLowerCase(); hasQ ? q : null
searchQ(q) == IF q = "" THEN NullStr ELSE q

\* search(filterAst, options, requester); options = [limit, cursor, q].
search(idx, filterAst, options, requester) ==
  searchAllowed(idx, filterAst, options,
                IF options.q = NullStr THEN NullStr ELSE searchQ(toLowerCase(trim(options.q))),
                Min(Max(options.limit, SEARCH_LIMIT_MIN), SEARCH_LIMIT_MAX),
                getAllowedDocs(idx, requester))

\* The stored bitmaps search applies an in-place operation or dispose() to:
\* candidates.andInPlace(allowed) and candidates.dispose() act on the bitmap
\* evaluateFilterAst handed over.
candidatesTouched(candidates) ==
  IF candidates.err THEN {} ELSE candidates.touched \cup stored(candidates.ref)

searchTouched(idx, filterAst, requester) ==
  IF getAllowedDocs(idx, requester) = {} \/ filterAst = NULL THEN {}
  ELSE candidatesTouched(evaluateFilterAst(filterAst, idx))

\* read(id, requester): found = FALSE is the null result.
read(idx, id, requester) ==
  IF id \notin DOMAIN idx.idToDoc THEN [found |-> FALSE]
  ELSE LET docId == idx.idToDoc[id]
       IN IF docId \notin DOMAIN idx.docs \/ ~canSee(idx.docs[docId].entry, requester)
          THEN [found |-> FALSE]
          ELSE [found |-> TRUE, entry |-> idx.docs[docId].entry]

\* Variant: an id the index does not hold is counted as omitted.
RECURSIVE batchLoopCountingUnknown(_, _, _, _, _)
batchLoopCountingUnknown(idx, ids, requester, items, omitted) ==
  IF ids = <<>> THEN [items |-> items, omitted |-> omitted]
  ELSE LET id == Head(ids)
       IN IF id \notin DOMAIN idx.idToDoc \/ idx.idToDoc[id] \notin DOMAIN idx.docs
             \/ ~canSee(idx.docs[idx.idToDoc[id]].entry, requester)
          THEN batchLoopCountingUnknown(idx, Tail(ids), requester, items, omitted + 1)
          ELSE batchLoopCountingUnknown(idx, Tail(ids), requester,
                                        Append(items, Hit(idx.docs[idx.idToDoc[id]])), omitted)

RECURSIVE batchLoop(_, _, _, _, _)
batchLoop(idx, ids, requester, items, omitted) ==
  IF ids = <<>> THEN [items |-> items, omitted |-> omitted]
  ELSE LET id == Head(ids)
       IN IF id \notin DOMAIN idx.idToDoc \/ idx.idToDoc[id] \notin DOMAIN idx.docs
          THEN batchLoop(idx, Tail(ids), requester, items, omitted)
          ELSE LET indexed == idx.docs[idx.idToDoc[id]]
               IN IF ~canSee(indexed.entry, requester)
                  THEN batchLoop(idx, Tail(ids), requester, items, omitted + 1)
                  ELSE batchLoop(idx, Tail(ids), requester, Append(items, Hit(indexed)), omitted)

batchGet(idx, ids, requester) == batchLoop(idx, ids, requester, <<>>, 0)

\* lib/view: the card and full projections of an entry.
CARD_ATTR_KEYS ==
  {"tag", "capability", "env", "status", "visibility", "endpoint", "auth", "owner"}

toCard(entry) ==
  [id |-> entry.id, type |-> entry.type, name |-> entry.name,
   namespace |-> entry.namespace, rev |-> entry.rev, version |-> entry.version,
   description |-> entry.description,
   attrs |-> [key \in {k \in CARD_ATTR_KEYS \cap DOMAIN entry.attrs :
                          Len(entry.attrs[k]) > 0} |-> entry.attrs[key]]]

toFull(entry) == entry

\* lib/errors: the status of an error code, and the response sendError
\* writes for an AppError without details.
CODE_TO_STATUS ==
  [invalid_request |-> 400, invalid_filter |-> 400, not_found |-> 404,
   forbidden |-> 403, unauthorized |-> 401, conflict |-> 409, internal |-> 500]

sendError(code, message) ==
  [status |-> CODE_TO_STATUS[code], body |-> [error |-> [code |-> code, message |-> message]]]

sendJson(status, payload) == [status |-> status, body |-> payload]

\* Variant: the handler answers forbidden for an entry the index holds but
\* the requester may not see.
getEntryRevealing(idx, id, view, requester) ==
  LET hit == read(idx, id, requester)
  IN IF ~hit.found
     THEN IF id \in DOMAIN idx.idToDoc
          THEN sendError("forbidden", "Entry not visible.")
          ELSE sendError("not_found", "Entry not found.")
     ELSE sendJson(200, [item |-> IF view = "card" THEN toCard(hit.entry) ELSE toFull(hit.entry)])

\* GET /core/entries/{id}?view=
getEntry(idx, id, view, requester) ==
  LET hit == read(idx, id, requester)
  IN IF ~hit.found
     THEN sendError("not_found", "Entry not found.")
     ELSE sendJson(200, [item |-> IF view = "card" THEN toCard(hit.entry) ELSE toFull(hit.entry)])

(***************************************************************************)
(* lib/filter/compileToSql: the SQL compiler of the /v1 search route.  A   *)
(* compilation is [err |-> FALSE, sql, params] or, for the thrown          *)
(* invalid_filter error, [err |-> TRUE, message, params].                  *)
(***************************************************************************)
invalidFilter(message, params) == [err |-> TRUE, message |-> message, params |-> params]

Compiled(sql, params) == [err |-> FALSE, sql |-> sql, params |-> params]

\* addParam(value): the placeholder is the position of the new parameter.
addParam(params, value) == Append(params, value)

paramRef(params) == "$" \o String(Len(params))

isDigit(char) == Len(char) = 1 /\ includes("0123456789", char)

\* /^-?\d+$/.test(text)
isInteger(text) ==
  LET digits == IF startsWith(text, "-") THEN SubSeq(text, 2, Len(text)) ELSE text
  IN Len(digits) > 0 /\ \A i \in 1..Len(digits) : isDigit(SubSeq(digits, i, i))

RECURSIVE digitsValue(_, _)
digitsValue(digits, value) ==
  IF digits = "" THEN value
  ELSE digitsValue(SubSeq(digits, 2, Len(digits)),
                   10 * value + (CHOOSE d \in 0..9 : Digit(d) = SubSeq(digits, 1, 1)))

\* Number.parseInt(text, 10) of a text that passed isInteger.
parseInt(text) ==
  IF startsWith(text, "-") THEN 0 - digitsValue(SubSeq(text, 2, Len(text)), 0)
  ELSE digitsValue(text, 0)

\* parts.join(separator)
RECURSIVE join(_, _)
join(parts, separator) ==
  IF parts = <<>> THEN ""
  ELSE IF Len(parts) = 1 THEN parts[1]
  ELSE parts[1] \o separator \o join(Tail(parts), separator)

compileEqAttr(key, value, params) ==
  Compiled("(COALESCE(jsonb_extract_path(attrs, " \o paramRef(addParam(params, key))
             \o "::text) ? " \o paramRef(addParam(addParam(params, key), value))
             \o "::text, false))",
           addParam(addParam(params, key), value))

compileEqTop(field, value, params) ==
  IF field = "rev"
  THEN IF ~isInteger(trim(value)) THEN invalidFilter("rev must be an integer.", params)
       ELSE Compiled("(rev = " \o paramRef(addParam(params, parseInt(trim(value)))) \o ")",
                     addParam(params, parseInt(trim(value))))
  ELSE Compiled("(" \o field \o " = " \o paramRef(addParam(params, value)) \o ")",
                addParam(params, value))

compileEq(target, value, params) ==
  IF target.kind = "error" THEN invalidFilter("Attribute key must not be empty.", params)
  ELSE IF target.kind = "top" THEN compileEqTop(target.key, value, params)
  ELSE compileEqAttr(target.key, value, params)

compilePresent(target, params) ==
  IF target.kind = "error" THEN invalidFilter("Attribute key must not be empty.", params)
  ELSE IF target.kind = "top"
  THEN IF target.key = "rev" THEN Compiled("(rev IS NOT NULL)", params)
       ELSE Compiled("(" \o target.key \o " IS NOT NULL AND " \o target.key \o " <> '')", params)
  ELSE Compiled("(attrs ? " \o paramRef(addParam(params, target.key)) \o "::text)",
                addParam(params, target.key))

RECURSIVE compileNode(_, _)
RECURSIVE compileChildren(_, _, _)

compileChild(children, parts, compiled) ==
  IF compiled.err THEN compiled
  ELSE compileChildren(children, compiled.params, Append(parts, compiled.sql))

\* ast.children.map((child) => compileNode(child, addParam))
compileChildren(children, params, parts) ==
  IF children = <<>> THEN [err |-> FALSE, parts |-> parts, params |-> params]
  ELSE compileChild(Tail(children), parts, compileNode(Head(children), params))

compileJoined(compiled, separator) ==
  IF compiled.err THEN compiled
  ELSE Compiled("(" \o join(compiled.parts, separator) \o ")", compiled.params)

compileNot(compiled) ==
  IF compiled.err THEN compiled
  ELSE Compiled("(NOT (" \o compiled.sql \o "))", compiled.params)

compileNode(ast, params) ==
  IF ast.kind = "and"
  THEN IF Len(ast.children) = 0
       THEN invalidFilter("AND filter must contain at least one child.", params)
       ELSE compileJoined(compileChildren(ast.children, params, <<>>), " AND ")
  ELSE IF ast.kind = "or"
  THEN IF Len(ast.children) = 0
       THEN invalidFilter("OR filter must contain at least one child.", params)
       ELSE compileJoined(compileChildren(ast.children, params, <<>>), " OR ")
  ELSE IF ast.kind = "not" THEN compileNot(compileNode(ast.child, params))
  ELSE IF ast.kind = "present" THEN compilePresent(resolveFilterKey(ast.key), params)
  ELSE compileEq(resolveFilterKey(ast.key), ast.value, params)

compileToSql(ast) == compileNode(ast, <<>>)

(***************************************************************************)
(* lib/filter/parser: the filter parser.  Positions are 0-based, as        *)
(* Parser.index is.  A parse returns [ok |-> TRUE, node, index] or, for a  *)
(* thrown InvalidFilterError, [ok |-> FALSE, message, position].           *)
(***************************************************************************)
KEY_CHAR == "ABCDEFGHIJKLMNOPQRSTUVWXYZabcdefghijklmnopqrstuvwxyz0123456789_.:/-"

isKeyChar(char) == Len(char) = 1 /\ includes(KEY_CHAR, char)

isWhitespace(char) == char \in {" ", "\t", "\n", "\r"}

isEof(input, index) == index >= Len(input)

\* this.input[this.index]; NullStr stands for undefined.
peek(input, index) ==
  IF isEof(input, index) THEN NullStr ELSE SubSeq(input, index + 1, index + 1)

RECURSIVE skipWhitespace(_, _)
skipWhitespace(input, index) ==
  IF ~isEof(input, index) /\ isWhitespace(peek(input, index))
  THEN skipWhitespace(input, index + 1)
  ELSE index

InvalidFilterError(message, position) ==
  [ok |-> FALSE, message |-> message, position |-> position]

Parsed(node, index) == [ok |-> TRUE, node |-> node, index |-> index]

\* value.replace(TRAILING_WS, '')
RECURSIVE stripTrailingWs(_)
stripTrailingWs(value) ==
  IF Len(value) > 0 /\ isWhitespace(SubSeq(value, Len(value), Len(value)))
  THEN stripTrailingWs(SubSeq(value, 1, Len(value) - 1))
  ELSE value

\* The loop of parseValue.
RECURSIVE parseValueLoop(_, _, _)
parseValueLoop(input, index, value) ==
  IF isEof(input, index) \/ peek(input, index) = ")"
  THEN [ok |-> TRUE, value |-> stripTrailingWs(value), index |-> index]
  ELSE IF peek(input, index) = "\\"
  THEN IF isEof(input, index + 1)
       THEN InvalidFilterError("Incomplete escape sequence.", index + 1)
       ELSE IF peek(input, index + 1) \notin {"\\", "*", "(", ")"}
       THEN InvalidFilterError("Unsupported escape sequence: \\" \o peek(input, index + 1), index + 1)
       ELSE parseValueLoop(input, index + 2, value \o peek(input, index + 1))
  ELSE IF peek(input, index) = "("
  THEN InvalidFilterError("Value contains unescaped \"(\".", index)
  ELSE parseValueLoop(input, index + 1, value \o peek(input, index))

parseValue(input, index) == parseValueLoop(input, index, "")

\* The loop of parseKey: the index after the key.
RECURSIVE parseKey(_, _)
parseKey(input, index) ==
  IF ~isEof(input, index) /\ isKeyChar(peek(input, index))
  THEN parseKey(input, index + 1)
  ELSE index

\* parseItem, by stages: the eq node of a parsed value, with index at least
\* floor; the value after "="; the "=" after the key; the key.
eqNode(key, parsedValue, floor) ==
  IF parsedValue.ok
  THEN Parsed([kind |-> "eq", key |-> key, value |-> parsedValue.value],
              Max(parsedValue.index, floor))
  ELSE parsedValue

itemValue(input, key, index) ==
  IF isEof(input, index) THEN InvalidFilterError("Expected value after \"=\".", index)
  ELSE IF peek(input, index) = "*"
  THEN IF peek(input, skipWhitespace(input, index + 1)) = ")"
       THEN Parsed([kind |-> "present", key |-> key], skipWhitespace(input, index + 1))
       ELSE eqNode(key, parseValue(input, index), index + 1)
  ELSE eqNode(key, parseValue(input, index), 0)

itemEquals(input, key, index) ==
  IF peek(input, index) # "=" THEN InvalidFilterError("Expected \"=\".", index)
  ELSE itemValue(input, key, skipWhitespace(input, index + 1))

itemKey(input, start, index) ==
  IF index = start THEN InvalidFilterError("Expected a filter key.", index)
  ELSE itemEquals(input, SubSeq(input, start + 1, index), skipWhitespace(input, index))

parseItem(input, index) == itemKey(input, index, parseKey(input, index))

RECURSIVE Parser_parseFilter(_, _)
RECURSIVE parseFilterList(_, _, _)

listNode(kind, list) ==
  IF list.ok THEN Parsed([kind |-> kind, children |-> list.children], list.index) ELSE list

notNode(parsed) ==
  IF parsed.ok THEN Parsed([kind |-> "not", child |-> parsed.node], parsed.index) ELSE parsed

\* parseFilterList: children.push(this.parseFilter()) and the next round.
listPush(input, children, parsed) ==
  IF parsed.ok THEN parseFilterList(input, parsed.index, Append(children, parsed.node))
  ELSE parsed

listRound(input, index, children) ==
  IF peek(input, index) # "("
  THEN IF children = <<>>
       THEN InvalidFilterError("Expected at least one nested filter.", index)
       ELSE [ok |-> TRUE, children |-> children, index |-> index]
  ELSE listPush(input, children, Parser_parseFilter(input, index))

parseFilterList(input, index, children) ==
  listRound(input, skipWhitespace(input, index), children)

parseFilterBody(input, index) ==
  IF isEof(input, index)
  THEN InvalidFilterError("Unexpected end of input in filter body.", index)
  ELSE IF peek(input, index) = "&" THEN listNode("and", parseFilterList(input, index + 1, <<>>))
  ELSE IF peek(input, index) = "|" THEN listNode("or", parseFilterList(input, index + 1, <<>>))
  ELSE IF peek(input, index) = "!"
  THEN notNode(Parser_parseFilter(input, skipWhitespace(input, index + 1)))
  ELSE parseItem(input, index)

\* Parser.parseFilter, by stages: expect(")") after the body; the body
\* after "("; expect("(").
filterClose(input, node, index) ==
  IF peek(input, index) # ")" THEN InvalidFilterError("Expected \")\".", index)
  ELSE Parsed(node, index + 1)

filterBody(input, body) ==
  IF body.ok THEN filterClose(input, body.node, skipWhitespace(input, body.index))
  ELSE body

filterOpen(input, index) ==
  IF peek(input, index) # "(" THEN InvalidFilterError("Expected \"(\".", index)
  ELSE filterBody(input, parseFilterBody(input, skipWhitespace(input, index + 1)))

Parser_parseFilter(input, index) == filterOpen(input, skipWhitespace(input, index))

\* Variant: whatever follows the filter is ignored.
parseEndLenient(input, node, index) == [ok |-> TRUE, node |-> node]

\* Parser.parse: nothing but whitespace may follow the filter.
parseEnd(input, node, index) ==
  IF ~isEof(input, index) THEN InvalidFilterError("Unexpected trailing characters.", index)
  ELSE [ok |-> TRUE, node |-> node]

parse(input, parsed) ==
  IF parsed.ok THEN parseEnd(input, parsed.node, skipWhitespace(input, parsed.index))
  ELSE parsed

parseFilter(input) == parse(input, Parser_parseFilter(input, skipWhitespace(input, 0)))

(***************************************************************************)
(* daemon/filterCache: FilterAstCache.  The Map is a sequence of           *)
(* [filter, node] in insertion order.  A number argument is NaN, Infinity, *)
(* undefined, or a finite number given in halves.                          *)
(***************************************************************************)
DEFAULT_FILTER_CACHE_SIZE == 256

Undefined == [kind |-> "undefined"]

Num(halves) == [kind |-> "num", halves |-> halves]

isFinite(number) == number.kind = "num"

floor(number) == number.halves \div 2

\* constructor(maxEntries = DEFAULT_FILTER_CACHE_SIZE)
FilterAstCache(maxEntries) ==
  [maxEntries |-> IF maxEntries = Undefined THEN DEFAULT_FILTER_CACHE_SIZE
                  ELSE IF isFinite(maxEntries) THEN Max(1, floor(maxEntries))
                  ELSE DEFAULT_FILTER_CACHE_SIZE,
   cache |-> <<>>]

cacheHas(cache, filter) == \E i \in 1..Len(cache) : cache[i].filter = filter

cacheGet(cache, filter) ==
  cache[CHOOSE i \in 1..Len(cache) : cache[i].filter = filter].node

cacheDelete(cache, filter) == SelectSeq(cache, LAMBDA e : e.filter # filter)

cacheSet(cache, filter, node) ==
  IF cacheHas(cache, filter)
  THEN [i \in 1..Len(cache) |->
          IF cache[i].filter = filter THEN [filter |-> filter, node |-> node] ELSE cache[i]]
  ELSE Append(cache, [filter |-> filter, node |-> node])

\* Variant: the oldest entry goes only when the cache is two over.
evictOldestLate(cache, maxEntries) ==
  IF Len(cache) > maxEntries + 1 THEN Tail(cache) ELSE cache

\* if (this.cache.size > this.maxEntries) delete the first key
evictOldest(cache, maxEntries) ==
  IF Len(cache) > maxEntries THEN Tail(cache) ELSE cache

\* An object on the heap: its address and its value.  Two objects are the
\* same object when their addresses are equal.
Object(ref, node) == [ref |-> ref, node |-> node]

\* What parseFilter returns is a new object, at the address fresh.
allocate(parsed, fresh) ==
  IF parsed.ok THEN [parsed EXCEPT !.node = Object(fresh, @)] ELSE parsed

\* getOrParse after a miss, given the outcome of parseFilter.
getOrParseMiss(self, filter, parsed) ==
  IF parsed.ok
  THEN [self |-> [self EXCEPT !.cache = evictOldest(cacheSet(@, filter, parsed.node),
                                                    self.maxEntries)],
        ok |-> TRUE, hit |-> FALSE, node |-> parsed.node]
  ELSE [self |-> self, ok |-> FALSE, hit |-> FALSE, error |-> parsed]

\* Variant: a hit returns the cached object and leaves the entry where it is.
getOrParseInPlace(self, filter, fresh) ==
  IF cacheHas(self.cache, filter)
  THEN [self |-> self, ok |-> TRUE, hit |-> TRUE, node |-> cacheGet(self.cache, filter)]
  ELSE getOrParseMiss(self, filter, allocate(parseFilter(filter), fresh))

\* getOrParse(filter): the cache after the call and what the call returned
\* or threw.  fresh is the address of the next object parseFilter makes.
getOrParse(self, filter, fresh) ==
  IF cacheHas(self.cache, filter)
  THEN [self |-> [self EXCEPT !.cache = cacheSet(cacheDelete(@, filter), filter,
                                                 cacheGet(self.cache, filter))],
        ok |-> TRUE, hit |-> TRUE, node |-> cacheGet(self.cache, filter)]
  ELSE getOrParseMiss(self, filter, allocate(parseFilter(filter), fresh))

(***************************************************************************)
(* daemon/server.ts: GET /core/search.  A raw query holds the text of each *)
(* parameter (NullStr when absent) and the number the limit text coerces   *)
(* to.  A handled request is the response written and the cache after it.  *)
(***************************************************************************)
emptyToUndefined(value) ==
  IF value = NullStr THEN NullStr
  ELSE IF Len(trim(value)) > 0 THEN trim(value)
  ELSE NullStr

SEARCH_LIMIT_DEFAULT == 20

\* z.coerce.number().int().min(min).max(max).default(byDefault)
coerceInt(raw, min, max, byDefault) ==
  IF raw = Undefined THEN [ok |-> TRUE, value |-> byDefault]
  ELSE IF ~isFinite(raw) THEN [ok |-> FALSE, value |-> 0]
  ELSE IF raw.halves % 2 # 0 THEN [ok |-> FALSE, value |-> 0]
  ELSE IF floor(raw) < min \/ floor(raw) > max THEN [ok |-> FALSE, value |-> 0]
  ELSE [ok |-> TRUE, value |-> floor(raw)]

\* z.enum(values).default(byDefault)
zEnum(raw, values, byDefault) ==
  IF raw = NullStr THEN [ok |-> TRUE, value |-> byDefault]
  ELSE [ok |-> raw \in values, value |-> raw]

\* Variant: the limit is not range-checked.
searchQuerySchemaAnyLimit(raw) ==
  [ok |-> /\ zEnum(emptyToUndefined(raw.sort), {"updated_at_desc", "none"}, "updated_at_desc").ok
          /\ zEnum(emptyToUndefined(raw.view), {"card", "full", "ids"}, "card").ok,
   filter |-> emptyToUndefined(raw.filter),
   q |-> emptyToUndefined(raw.q),
   limit |-> IF raw.limit = Undefined THEN SEARCH_LIMIT_DEFAULT
             ELSE IF isFinite(raw.limit) THEN floor(raw.limit) ELSE 0,
   cursor |-> emptyToUndefined(raw.cursor),
   sort |-> zEnum(emptyToUndefined(raw.sort), {"updated_at_desc", "none"}, "updated_at_desc").value,
   view |-> zEnum(emptyToUndefined(raw.view), {"card", "full", "ids"}, "card").value]

\* searchQuerySchema.parse: ok = FALSE stands for the thrown ZodError.
searchQuerySchema(raw) ==
  [ok |-> /\ coerceInt(raw.limit, SEARCH_LIMIT_MIN, SEARCH_LIMIT_MAX, SEARCH_LIMIT_DEFAULT).ok
          /\ zEnum(emptyToUndefined(raw.sort), {"updated_at_desc", "none"}, "updated_at_desc").ok
          /\ zEnum(emptyToUndefined(raw.view), {"card", "full", "ids"}, "card").ok,
   filter |-> emptyToUndefined(raw.filter),
   q |-> emptyToUndefined(raw.q),
   limit |-> coerceInt(raw.limit, SEARCH_LIMIT_MIN, SEARCH_LIMIT_MAX, SEARCH_LIMIT_DEFAULT).value,
   cursor |-> emptyToUndefined(raw.cursor),
   sort |-> zEnum(emptyToUndefined(raw.sort), {"updated_at_desc", "none"}, "updated_at_desc").value,
   view |-> zEnum(emptyToUndefined(raw.view), {"card", "full", "ids"}, "card").value]

\* sendError for a ZodError.
sendZodError ==
  sendJson(400, [error |-> [code |-> "invalid_request", message |-> "Request validation failed."]])

\* sendError for the parser's InvalidFilterError, which has details.
sendParseError(error) ==
  sendJson(400, [error |-> [code |-> "invalid_filter", message |-> error.message,
                            details |-> [position |-> error.position]]])

\* sendError for the invalid_filter error of key resolution.
sendKeyError ==
  sendJson(400, [error |-> [code |-> "invalid_filter",
                            message |-> "Attribute key must not be empty."]])

searchItems(view, items) ==
  [i \in 1..Len(items) |->
     IF view = "full" THEN toFull(items[i].entry) ELSE toCard(items[i].entry)]

searchResponse(view, searchResult) ==
  IF searchResult.err THEN sendKeyError
  ELSE IF view = "ids"
  THEN sendJson(200, [ids |-> [i \in 1..Len(searchResult.items) |-> searchResult.items[i].entry.id],
                      next_cursor |-> searchResult.next_cursor])
  ELSE sendJson(200, [items |-> searchItems(view, searchResult.items),
                      next_cursor |-> searchResult.next_cursor])

searchDecoded(idx, ast, parsedQuery, requester, decoded) ==
  IF ~decoded.ok THEN sendError("invalid_request", "Invalid cursor.")
  ELSE searchResponse(parsedQuery.view,
                      search(idx, ast, [limit |-> parsedQuery.limit, cursor |-> decoded.cursor,
                                        q |-> parsedQuery.q], requester))

\* The handler from the cursor on.
searchWithAst(idx, ast, parsedQuery, requester) ==
  IF parsedQuery.cursor # NullStr
  THEN IF parsedQuery.sort # "updated_at_desc"
       THEN sendError("invalid_request", "Cursor requires sort=updated_at_desc.")
       ELSE searchDecoded(idx, ast, parsedQuery, requester, decodeCursor(parsedQuery.cursor))
  ELSE searchResponse(parsedQuery.view,
                      search(idx, ast, [limit |-> parsedQuery.limit, cursor |-> NULL,
                                        q |-> parsedQuery.q], requester))

searchCached(idx, parsedQuery, requester, called) ==
  IF ~called.ok
  THEN [cache |-> called.self, response |-> sendParseError(called.error)]
  ELSE [cache |-> called.self,
        response |-> searchWithAst(idx, called.node.node, parsedQuery, requester)]

searchValidated(idx, cache, parsedQuery, requester, fresh) ==
  IF ~parsedQuery.ok THEN [cache |-> cache, response |-> sendZodError]
  ELSE IF parsedQuery.filter = NullStr
  THEN [cache |-> cache, response |-> searchWithAst(idx, NULL, parsedQuery, requester)]
  ELSE searchCached(idx, parsedQuery, requester, getOrParse(cache, parsedQuery.filter, fresh))

\* handleRequest for GET /core/search and the catch around it.
handleSearch(idx, cache, raw, requester, fresh) ==
  searchValidated(idx, cache, searchQuerySchema(raw), requester, fresh)

(***************************************************************************)
(* lib/access: parseRequester.  A request is the record of what            *)
(* req.headers.get returns for the three headers read, NullStr for a       *)
(* header that was not sent; env is process.env.ELDAPPO_TRUSTED_HEADERS,   *)
(* NullStr when unset.                                                     *)
(***************************************************************************)
\* String.prototype.split(separator) for a separator of one character.
RECURSIVE splitFrom(_, _, _, _)
splitFrom(s, separator, start, at) ==
  IF at > Len(s) THEN <<SubSeq(s, start, Len(s))>>
  ELSE IF SubSeq(s, at, at) = separator
  THEN <<SubSeq(s, start, at - 1)>> \o splitFrom(s, separator, at + 1, at + 1)
  ELSE splitFrom(s, separator, start, at + 1)

split(s, separator) == splitFrom(s, separator, 1, 1)

\* Boolean(value) of a string or null.
truthy(value) == value # NullStr /\ Len(value) > 0

\* { isAuthenticated: false, groups: new Set(), subject: null }
anonymous(subject) == [isAuthenticated |-> FALSE, groups |-> {}, subject |-> subject]

\* Variant: the names are not trimmed.
parseGroupsUntrimmed(groupsHeader) ==
  {group \in Range(split(groupsHeader, ",")) : truthy(group)}

\* new Set(groupsHeader.split(',').map((group) => group.trim()).filter(Boolean))
parseGroups(groupsHeader) ==
  {group \in {trim(part) : part \in Range(split(groupsHeader, ","))} : truthy(group)}

parseRequester(env, headers) ==
  IF env # "true" THEN anonymous(NullStr)
  ELSE IF ~(truthy(headers.authorization) \/ truthy(headers.sub)) THEN anonymous(NullStr)
  ELSE [isAuthenticated |-> TRUE,
        groups |-> parseGroups(IF headers.groups = NullStr THEN "" ELSE headers.groups),
        subject |-> headers.sub]

(***************************************************************************)
(* State.                                                                  *)
(*   index    - the fields of the InMemoryCoreIndex instance               *)
(*   ingested - number of rows handed to the index since it was last reset *)
(*   applied  - history: per id, the highest rev handed to the index since *)
(*              it was last reset                                          *)
(*   last     - the most recent call on the index, with its arguments; for *)
(*              a read, the value it returned; for applyChange, whether it *)
(*              repeats the call before it and the entry it found stored   *)
(*   assigned - history: per doc id, the ids it has been assigned to, over *)
(*              the life of the instance (ever) and since the last reset   *)
(*              (sinceReset)                                               *)
(***************************************************************************)
VARIABLES index, ingested, applied, last, assigned

\* The daemon around the index and the store it tails.
VARIABLES changes, mainPc, lastSeq, pollInFlight, polls, handled, loaded, filterCache

\* History: the getOrParse calls made on filterCache, oldest first.
VARIABLES calls

\* The GET /core/changes request being answered, at its await.
VARIABLES scan

\* The store's tables with the sequence behind changes.seq (db), and per
\* connection the write request it serves with the transaction's position
\* and uncommitted rows (txs).
VARIABLES db, txs

\* What the search handlers leave alone.
storeVars == <<scan, db, txs>>

\* What the index and the tailer leave alone.
sideVars == <<filterCache, calls, storeVars>>

daemonVars ==
  <<changes, mainPc, lastSeq, pollInFlight, polls, handled, loaded, sideVars>>

vars == <<index, ingested, applied, last, assigned,
          changes, mainPc, lastSeq, pollInFlight, polls, handled, loaded, filterCache,
          calls, scan, db, txs>>

ReadOps == {"search", "read", "batchGet", "getEntry", "evaluateFilterAst", "handleSearch",
            "handleChanges"}

\* The caller has taken the value returned by the previous read.
Idle == last.op \notin ReadOps

\* The entry the index holds for an id, NULL when it holds none.
StoredEntry(idx, id) ==
  IF id \in DOMAIN idx.idToDoc /\ idx.idToDoc[id] \in DOMAIN idx.docs
  THEN idx.docs[idx.idToDoc[id]].entry
  ELSE NULL

\* History bookkeeping: the highest rev seen per id.
RECURSIVE noteApplied(_, _)
noteApplied(hist, rows) ==
  IF rows = <<>> THEN hist
  ELSE LET row == Head(rows)
           seen == IF row.id \in DOMAIN hist THEN Max(hist[row.id], row.rev) ELSE row.rev
       IN noteApplied(MapSet(hist, row.id, seen), Tail(rows))

\* History bookkeeping: the id each doc id of the registry is assigned to.
noteAssigned(hist, idx) ==
  [d \in DOMAIN hist \cup DOMAIN idx.docs |->
     (IF d \in DOMAIN hist THEN hist[d] ELSE {})
       \cup (IF d \in DOMAIN idx.docs THEN {idx.docs[d].entry.id} ELSE {})]

InitIndex ==
  /\ index = reset
  /\ ingested = 0
  /\ applied = EmptyMap
  /\ last = [op |-> "new"]
  /\ assigned = [ever |-> EmptyMap, sinceReset |-> EmptyMap]
  /\ changes = <<>>
  /\ mainPc = "loadSnapshot"
  /\ lastSeq = 0
  /\ pollInFlight = FALSE
  /\ polls = <<>>
  /\ handled = <<>>
  /\ loaded = <<>>

\* No /core/changes request is being answered.
NoScan == [pc |-> "idle"]

\* The connections of the pool that serve write requests.
MaxConns == 2

Conns == 1..MaxConns

\* A connection that serves no request.  Of a transaction: the request
\* (op, id, and entry or status), the position pc, the rev chosen, and the
\* rows written to each table and not yet committed.
NoTx ==
  [pc |-> "idle", op |-> "", id |-> "", entry |-> NULL, status |-> "", nextRev |-> 0,
   entries |-> {}, entries_latest |-> {}, changes |-> {}]

EmptyDb == [entries |-> {}, entries_latest |-> {}, changes |-> {}, changes_seq |-> 0]

InitStore ==
  /\ scan = NoScan
  /\ db = EmptyDb
  /\ txs = [conn \in Conns |-> NoTx]

\* const filterCache = new FilterAstCache(Number(ELDAPPO_FILTER_CACHE_SIZE ?? 256))
Init ==
  /\ InitIndex
  /\ filterCache = FilterAstCache(Num(2 * DEFAULT_FILTER_CACHE_SIZE))
  /\ calls = <<>>
  /\ InitStore

\* core.buildFromSnapshot(rows)
BuildFromSnapshot(rows) ==
  /\ Idle
  /\ index' = buildFromSnapshot(index, rows)
  /\ ingested' = Len(rows)
  /\ applied' = noteApplied(EmptyMap, rows)
  /\ last' = [op |-> "buildFromSnapshot"]
  /\ assigned' = [ever |-> noteAssigned(assigned.ever, index'),
                  sinceReset |-> noteAssigned(EmptyMap, index')]
  /\ UNCHANGED daemonVars

\* pollChanges: core.applyChange({id: row.id, rev: row.rev}, entry) for a
\* change row whose joined entry is present.
ApplyChange(row) ==
  /\ Idle
  /\ ingested < MaxIngest
  /\ index' = applyChange(index, [id |-> row.id, rev |-> row.rev], row)
  /\ ingested' = ingested + 1
  /\ applied' = noteApplied(applied, <<row>>)
  /\ last' = [op |-> "applyChange", id |-> row.id, rev |-> row.rev, row |-> row,
              again |-> (last.op = "applyChange" /\ last.row = row),
              replaced |-> StoredEntry(index, row.id)]
  /\ assigned' = [ever |-> noteAssigned(assigned.ever, index'),
                  sinceReset |-> noteAssigned(assigned.sinceReset, index')]
  /\ UNCHANGED daemonVars

\* core.applyChange(change, null): the joined entry is absent.
ApplyNull(id, rev) ==
  /\ Idle
  /\ index' = applyChange(index, [id |-> id, rev |-> rev], NULL)
  /\ last' = [op |-> "applyChange", id |-> id, rev |-> rev, row |-> NULL,
              again |-> FALSE, replaced |-> StoredEntry(index, id)]
  /\ UNCHANGED <<ingested, applied, assigned>>
  /\ UNCHANGED daemonVars

\* loadSnapshot: the first call on a fresh index loads the latest view.
Startup == last.op = "new" /\ \E rows \in SeqsUpTo(Entries, MaxRows) : BuildFromSnapshot(rows)

\* The change tailer.
TailChange == \E row \in Entries : ApplyChange(row)

TailNull == \E id \in Ids, rev \in Revs : ApplyNull(id, rev)

NextIndex == Startup \/ TailChange \/ TailNull

SpecIndex == Init /\ [][NextIndex]_vars

\* buildFromSnapshot called again on a used index.
Rebuild == \E rows \in SeqsUpTo(RebuildEntries, MaxRows) : BuildFromSnapshot(rows)

TailRebuilt == \E row \in RebuildEntries : ApplyChange(row)

NextRebuild == Rebuild \/ TailRebuilt

SpecRebuild == Init /\ [][NextRebuild]_vars

(***************************************************************************)
(* The read surface: CoreIndex.search, read and batchGet, called by the     *)
(* daemon's handleRequest and callable with any limit (search clamps it).  *)
(***************************************************************************)
Anonymous == [isAuthenticated |-> FALSE, groups |-> {}]

Requesters ==
  {Anonymous} \cup {[isAuthenticated |-> TRUE, groups |-> gs] : gs \in {{}, {"g1"}, {"g2"}}}

\* Filters as parseFilter produces them.
Filters ==
  << [kind |-> "eq", key |-> "type", value |-> "skill"],
     [kind |-> "eq", key |-> "tag", value |-> "t1"],
     [kind |-> "and", children |-> << [kind |-> "eq", key |-> "type", value |-> "skill"],
                                      [kind |-> "present", key |-> "attrs.tag"] >>],
     [kind |-> "or", children |-> << [kind |-> "eq", key |-> "tag", value |-> "t2"],
                                     [kind |-> "eq", key |-> "attrs.visibility", value |-> "internal"] >>],
     [kind |-> "not", child |-> [kind |-> "present", key |-> "endpoint"]],
     [kind |-> "and", children |-> << [kind |-> "not", child |-> [kind |-> "eq", key |-> "tag", value |-> "t1"]],
                                      [kind |-> "eq", key |-> "rev", value |-> "2"] >>],
     [kind |-> "present", key |-> "version"] >>

Queries == {NullStr, " PDF "}

Limits == 0..MaxLimit

\* core.search(filterAst, {limit, cursor, q}, requester)
Search(filterAst, options, requester) ==
  /\ Idle
  /\ last' = [op |-> "search", filterAst |-> filterAst, options |-> options,
              requester |-> requester, earlier |-> <<>>,
              result |-> search(index, filterAst, options, requester)]
  /\ UNCHANGED <<index, ingested, applied, assigned>>
  /\ UNCHANGED daemonVars

\* The client re-issues the search it got a next_cursor from, with that
\* cursor decoded as handleRequest decodes it; earlier collects the items of
\* the pages before this one.
SearchNext ==
  /\ last.op = "search"
  /\ ~last.result.err
  /\ last.result.next_cursor # NullStr
  /\ decodeCursor(last.result.next_cursor).ok
  /\ \E filterAst \in {last.filterAst}, requester \in {last.requester},
        options \in {[last.options EXCEPT
                        !.cursor = decodeCursor(last.result.next_cursor).cursor]} :
       last' = [op |-> "search", filterAst |-> filterAst, options |-> options,
                requester |-> requester,
                earlier |-> last.earlier \o last.result.items,
                result |-> search(index, filterAst, options, requester)]
  /\ UNCHANGED <<index, ingested, applied, assigned>>
  /\ UNCHANGED daemonVars

\* core.read(id, requester)
Read(id, requester) ==
  /\ Idle
  /\ last' = [op |-> "read", id |-> id, requester |-> requester,
              result |-> read(index, id, requester)]
  /\ UNCHANGED <<index, ingested, applied, assigned>>
  /\ UNCHANGED daemonVars

\* core.batchGet(ids, requester)
BatchGet(ids, requester) ==
  /\ Idle
  /\ last' = [op |-> "batchGet", ids |-> ids, requester |-> requester,
              result |-> batchGet(index, ids, requester)]
  /\ UNCHANGED <<index, ingested, applied, assigned>>
  /\ UNCHANGED daemonVars

\* The daemon serves GET /core/entries/{id}.
GetEntry(id, view, requester) ==
  /\ Idle
  /\ last' = [op |-> "getEntry", id |-> id, view |-> view, requester |-> requester,
              response |-> getEntry(index, id, view, requester)]
  /\ UNCHANGED <<index, ingested, applied, assigned>>
  /\ UNCHANGED daemonVars

\* The handler hands the value to its caller.
Return ==
  /\ last.op \in ReadOps
  /\ last' = [op |-> "returned"]
  /\ UNCHANGED <<index, ingested, applied, assigned>>
  /\ UNCHANGED daemonVars

SearchFiltered ==
  \E i \in 1..Len(Filters), limit \in Limits, r \in Requesters :
    Search(Filters[i], [limit |-> limit, cursor |-> NULL, q |-> NullStr], r)

SearchAll ==
  \E limit \in Limits, q \in Queries, r \in Requesters :
    Search(NULL, [limit |-> limit, cursor |-> NULL, q |-> q], r)

ReadOne == \E id \in Ids, r \in Requesters : Read(id, r)

Views == {"card", "full"}

GetEntryOne == \E id \in Ids, view \in Views, r \in Requesters : GetEntry(id, view, r)

BatchGetSome == \E ids \in SeqsUpTo(Ids, MaxBatch), r \in Requesters : BatchGet(ids, r)

NextRead ==
  \/ Startup \/ TailChange \/ TailNull
  \/ SearchFiltered \/ SearchAll \/ SearchNext \/ ReadOne \/ GetEntryOne \/ BatchGetSome \/ Return

SpecRead == Init /\ [][NextRead]_vars

(***************************************************************************)
(* The evaluator on its own: evaluateFilterAst called with the index as    *)
(* posting context, on ASTs of every shape.                                *)
(***************************************************************************)
Eq(key, value) == [kind |-> "eq", key |-> key, value |-> value]

Present(key) == [kind |-> "present", key |-> key]

And(children) == [kind |-> "and", children |-> children]

Or(children) == [kind |-> "or", children |-> children]

Not(child) == [kind |-> "not", child |-> child]

\* Leaves: postings that some entries have, and one that none has.
EvalLeaves ==
  {Eq("type", "skill"), Eq("tag", "t1"), Eq("tag", "t2"), Present("endpoint"),
   Eq("tag", "__never__")}

EvalAsts ==
  EvalLeaves
    \cup {Not(a) : a \in EvalLeaves}
    \cup {And(<<a, b>>) : a, b \in EvalLeaves}
    \cup {Or(<<a, b>>) : a, b \in EvalLeaves}
    \cup {And(<<Or(<<Eq("type", "skill"), Eq("tag", "__never__")>>), Not(Eq("tag", "t1"))>>),
          And(<<Not(Eq("tag", "t2")), Present("endpoint"), Eq("type", "skill")>>),
          And(<<Eq("tag", "t1"), Eq("tag", "t2"), Present("endpoint")>>),
          Or(<<And(<<Eq("type", "skill"), Eq("tag", "t1")>>), Not(Present("endpoint"))>>),
          Not(And(<<Eq("type", "skill"), Eq("tag", "t2")>>)),
          Not(Not(Eq("tag", "t1"))),
          And(<<Eq("tag", "t1")>>), Or(<<Eq("tag", "t1")>>), And(<<>>), Or(<<>>)}

\* evaluateFilterAst(ast, {getPosting, universe})
Evaluate(ast) ==
  /\ Idle
  /\ last' = [op |-> "evaluateFilterAst", ast |-> ast,
              result |-> evaluateFilterAst(ast, index)]
  /\ UNCHANGED <<index, ingested, applied, assigned>>
  /\ UNCHANGED daemonVars

\* Filters whose keys exercise key resolution, as the parser reads them.
KeyFilters ==
  {"(rev=abc)", "(rev=2)", "(id=e1)", "(attrs.id=e1)", "(tag=t1)", "(attrs.tag=t1)",
   "(attrs.type=skill)", "(attrs.=x)", "(attrs.=*)", "(endpoint=*)", "(attrs.endpoint=*)"}

KeyAsts == {parseFilter(filter).node : filter \in KeyFilters}

EvaluateSome == \E ast \in EvalAsts \cup KeyAsts : Evaluate(ast)

NextEval == Startup \/ TailChange \/ TailNull \/ EvaluateSome \/ Return

SpecEval == Init /\ [][NextEval]_vars

(***************************************************************************)
(* The daemon: loadSnapshot, the poll timer and pollChanges over the       *)
(* store's change log.                                                     *)
(*   changes      - the store's change log, each row with its joined entry *)
(*                  (NULL when the join finds none)                        *)
(*   mainPc       - main's position: "loadSnapshot", "loadSeq", "serving"  *)
(*   lastSeq, pollInFlight - the daemon's module variables                 *)
(*   polls        - the pollChanges calls that have not returned, each at  *)
(*                  its await: "querying" until the store answers, then    *)
(*                  "answered" with the rows                               *)
(*   handled      - history: the change rows handed to applyChange         *)
(*   loaded       - history: the rows loadSnapshot built the index from    *)
(***************************************************************************)
MaxSeq == 3

\* ELDAPPO_CORE_POLL_BATCH
pollBatch == 2

TailPayloads == {p \in Payloads : p.type \in {"skill", "rag"} /\ p.version # ""}

ChangesOf(id) == {i \in 1..Len(changes) : changes[i].id = id}

\* The rev the writer gives the next revision of an id.
NextRev(id) ==
  IF ChangesOf(id) = {} THEN 1
  ELSE 1 + (CHOOSE r \in {changes[i].rev : i \in ChangesOf(id)} :
              \A i \in ChangesOf(id) : changes[i].rev <= r)

\* The store's clock: updated_at of the next revision.  It does not run
\* backwards, and stands still once it has reached the last of Times.
now == TimeStr(Min(Len(changes) + 1, MaxTime))

\* The writer commits a revision and its change row, while the log is
\* shorter than maxLen.
PublishRow(maxLen) ==
  /\ Idle
  /\ Len(changes) < maxLen
  /\ \E id \in Ids, p \in TailPayloads :
       changes' = Append(changes,
                         [seq |-> Len(changes) + 1, id |-> id, rev |-> NextRev(id),
                          change_type |-> "publish", changed_at |-> now,
                          entry |-> EntryRecord(id, NextRev(id), now, p)])
  /\ UNCHANGED <<index, ingested, applied, last, assigned,
                 mainPc, lastSeq, pollInFlight, polls, handled, loaded, sideVars>>

Publish == PublishRow(MaxSeq)

\* A change row whose (id, rev) has no row in entries.
OrphanRow(maxLen) ==
  /\ Idle
  /\ Len(changes) < maxLen
  /\ \E id \in Ids :
       changes' = Append(changes,
                         [seq |-> Len(changes) + 1, id |-> id, rev |-> NextRev(id),
                          change_type |-> "publish", changed_at |-> now,
                          entry |-> NULL])
  /\ UNCHANGED <<index, ingested, applied, last, assigned,
                 mainPc, lastSeq, pollInFlight, polls, handled, loaded, sideVars>>

PublishOrphan == OrphanRow(MaxSeq)

normalizeAttrs(value) == [key \in DOMAIN value |-> value[key]]

normalizeEntryRow(row) ==
  [id |-> row.id, rev |-> row.rev, updated_at |-> row.updated_at,
   type |-> row.type, namespace |-> row.namespace, name |-> row.name,
   description |-> IF row.description = NullStr THEN "" ELSE row.description,
   version |-> row.version, attrs |-> normalizeAttrs(row.attrs)]

\* SELECT ... FROM entries_latest: the highest revision of every id.
entriesLatest ==
  {changes[i].entry : i \in {j \in 1..Len(changes) :
      /\ changes[j].entry # NULL
      /\ \A k \in ChangesOf(changes[j].id) :
            changes[k].entry # NULL => changes[k].rev <= changes[j].rev}}

\* The orders in which a query without ORDER BY may return a set of rows.
Orderings(S) == {rows \in SeqsUpTo(S, Cardinality(S)) : Range(rows) = S}

\* SELECT COALESCE(MAX(seq), 0) FROM changes
maxSeq == Len(changes)

\* loadSnapshot up to its second await: the latest view is read and the
\* index built from it.
LoadSnapshotRowsOf(latest) ==
  /\ mainPc = "loadSnapshot"
  /\ Idle
  /\ \E rows \in Orderings(latest) :
       LET snapshot == [i \in 1..Len(rows) |-> normalizeEntryRow(rows[i])]
       IN /\ index' = buildFromSnapshot(index, snapshot)
          /\ ingested' = Len(snapshot)
          /\ applied' = noteApplied(EmptyMap, snapshot)
          /\ loaded' = snapshot
  /\ assigned' = [ever |-> noteAssigned(assigned.ever, index'),
                  sinceReset |-> noteAssigned(EmptyMap, index')]
  /\ last' = [op |-> "buildFromSnapshot"]
  /\ mainPc' = "loadSeq"
  /\ UNCHANGED <<changes, lastSeq, pollInFlight, polls, handled, sideVars>>

LoadSnapshotRows == LoadSnapshotRowsOf(entriesLatest)

\* loadSnapshot from its second await on, and the rest of main: lastSeq is
\* set, the timer started and the server listens.
LoadSnapshotSeqAt(max_seq) ==
  /\ mainPc = "loadSeq"
  /\ Idle
  /\ lastSeq' = max_seq
  /\ mainPc' = "serving"
  /\ UNCHANGED <<index, ingested, applied, last, assigned,
                 changes, pollInFlight, polls, handled, loaded, sideVars>>

LoadSnapshotSeq == LoadSnapshotSeqAt(maxSeq)

\* Variant: a tick starts a cycle whether or not one is in flight.
mayStartAlways(inFlight) == TRUE

\* if (pollInFlight) return;
mayStart(inFlight) == ~inFlight

\* The timer fires: pollChanges up to its first await.
Tick ==
  /\ mainPc = "serving"
  /\ Idle
  /\ IF mayStart(pollInFlight)
     THEN /\ pollInFlight' = TRUE
          /\ polls' = Append(polls, [pc |-> "querying", since |-> lastSeq, rows |-> <<>>])
          /\ last' = [op |-> "tick", dropped |-> FALSE]
     ELSE /\ last' = [op |-> "tick", dropped |-> TRUE]
          /\ UNCHANGED <<pollInFlight, polls>>
  /\ UNCHANGED <<index, ingested, applied, assigned,
                 changes, mainPc, lastSeq, handled, loaded, sideVars>>

\* Variant: WHERE c.seq >= $1
fetchChangesInclusive(feed, since, limit) ==
  LET rows == SelectSeq(feed, LAMBDA c : c.seq >= since)
  IN SubSeq(rows, 1, Min(limit, Len(rows)))

\* WHERE c.seq > $1 ORDER BY c.seq ASC LIMIT $2
fetchChanges(feed, since, limit) ==
  LET rows == SelectSeq(feed, LAMBDA c : c.seq > since)
  IN SubSeq(rows, 1, Min(limit, Len(rows)))

\* The store answers the query of a cycle from the change log feed.
DbAnswerFrom(feed) ==
  \E i \in 1..Len(polls) :
    /\ Idle
    /\ polls[i].pc = "querying"
    /\ polls' = [polls EXCEPT ![i] = [pc |-> "answered", since |-> polls[i].since,
                                      rows |-> fetchChanges(feed, polls[i].since, pollBatch)]]
    /\ UNCHANGED <<index, ingested, applied, last, assigned,
                   changes, mainPc, lastSeq, pollInFlight, handled, loaded, sideVars>>

DbAnswer == DbAnswerFrom(changes)

RemoveAt(seq, i) == SubSeq(seq, 1, i - 1) \o SubSeq(seq, i + 1, Len(seq))

\* The query of a cycle fails: catch, then finally.
DbFail ==
  /\ Idle
  /\ \E i \in 1..Len(polls) :
       /\ polls[i].pc = "querying"
       /\ polls' = RemoveAt(polls, i)
       /\ last' = [op |-> "pollChanges", error |-> TRUE, failedSeq |-> 0,
                   since |-> polls[i].since]
  /\ pollInFlight' = FALSE
  /\ UNCHANGED <<index, ingested, applied, assigned,
                 changes, mainPc, lastSeq, handled, loaded, sideVars>>

\* for (const row of rows): st holds the index, lastSeq, the rows handed to
\* applyChange and the seq of the row whose handling threw (0: none); the
\* handling of row throwAt throws.
\* Variant: lastSeq = seq is assigned after the check of the joined entry.
RECURSIVE handleRowsPresentSeen(_, _, _, _)
handleRowsPresentSeen(st, rows, throwAt, k) ==
  IF k > Len(rows) THEN st
  ELSE LET row == rows[k]
           seen == [st EXCEPT !.lastSeq = row.seq]
       IN IF row.entry = NULL THEN handleRowsPresentSeen(st, rows, throwAt, k + 1)
          ELSE IF k = throwAt THEN [seen EXCEPT !.failed = row.seq]
          ELSE handleRowsPresentSeen([seen EXCEPT
                             !.index = applyChange(@, [id |-> row.id, rev |-> row.rev],
                                                   normalizeEntryRow(row.entry)),
                             !.handled = Append(@, row)],
                          rows, throwAt, k + 1)

RECURSIVE handleRows(_, _, _, _)
handleRows(st, rows, throwAt, k) ==
  IF k > Len(rows) THEN st
  ELSE LET row == rows[k]
           seen == [st EXCEPT !.lastSeq = row.seq]
       IN IF row.entry = NULL THEN handleRows(seen, rows, throwAt, k + 1)
          ELSE IF k = throwAt THEN [seen EXCEPT !.failed = row.seq]
          ELSE handleRows([seen EXCEPT
                             !.index = applyChange(@, [id |-> row.id, rev |-> row.rev],
                                                   normalizeEntryRow(row.entry)),
                             !.handled = Append(@, row)],
                          rows, throwAt, k + 1)

\* A cycle resumes with the rows of its query: the row loop, then the next
\* query, or the end of the cycle through finally.
Deliver ==
  /\ Idle
  /\ \E i \in 1..Len(polls) :
       /\ polls[i].pc = "answered"
       /\ \E throwAt \in 0..Len(polls[i].rows) :
            /\ throwAt > 0 => polls[i].rows[throwAt].entry # NULL
            /\ \E done \in {handleRows([index |-> index, lastSeq |-> lastSeq,
                                         handled |-> <<>>, failed |-> 0],
                                        polls[i].rows, throwAt, 1)} :
                 /\ index' = done.index
                 /\ lastSeq' = done.lastSeq
                 /\ handled' = handled \o done.handled
                 /\ ingested' = ingested + Len(done.handled)
                 /\ applied' = noteApplied(applied,
                                           [j \in 1..Len(done.handled) |->
                                              normalizeEntryRow(done.handled[j].entry)])
                 /\ IF polls[i].rows = <<>> \/ done.failed # 0
                       \/ Len(polls[i].rows) < pollBatch
                    THEN /\ pollInFlight' = FALSE
                         /\ polls' = RemoveAt(polls, i)
                    ELSE /\ polls' = [polls EXCEPT ![i] =
                                        [pc |-> "querying", since |-> done.lastSeq,
                                         rows |-> <<>>]]
                         /\ UNCHANGED pollInFlight
                 /\ last' = [op |-> "pollChanges", error |-> done.failed # 0,
                             failedSeq |-> done.failed, since |-> polls[i].since]
  /\ assigned' = [ever |-> noteAssigned(assigned.ever, index'),
                  sinceReset |-> noteAssigned(assigned.sinceReset, index')]
  /\ UNCHANGED <<changes, mainPc, loaded, sideVars>>

\* Requests are served once the server listens.
ServeSearch ==
  /\ mainPc = "serving"
  /\ \E r \in {Anonymous, [isAuthenticated |-> TRUE, groups |-> {"g1"}]} :
       Search(NULL, [limit |-> MaxLimit, cursor |-> NULL, q |-> NullStr], r)

ServeRead ==
  /\ mainPc = "serving"
  /\ \E id \in Ids : Read(id, Anonymous)

ServeBatchGet ==
  /\ mainPc = "serving"
  /\ \E ids \in Orderings(Ids) : BatchGet(ids, Anonymous)

NextTail ==
  \/ Publish \/ PublishOrphan \/ LoadSnapshotRows \/ LoadSnapshotSeq
  \/ Tick \/ DbAnswer \/ DbFail \/ Deliver
  \/ ServeSearch \/ ServeRead \/ ServeBatchGet \/ Return

SpecTail == Init /\ [][NextTail]_vars

(***************************************************************************)
(* The filter cache on its own: a cache constructed with any argument and  *)
(* asked for filters.                                                      *)
(***************************************************************************)
MaxHalves == 5

\* Arguments of the constructor: nothing, NaN, Infinity and -Infinity, and
\* the finite numbers -1, -0.5, 0, ..., MaxHalves / 2.
CacheSizeArgs ==
  {Undefined, [kind |-> "nan"], [kind |-> "inf"], [kind |-> "-inf"]}
    \cup {Num(h) : h \in -2..MaxHalves}

\* Strings the parser rejects: an or and an and without children, an
\* unknown escape, an unescaped "(" in a value, characters after the
\* outermost close, a filter that is not closed.
RejectedStrings ==
  {"(|)", "(& )", "(tag=a\\x)", "(tag=a(b)", "(type=skill)x", "(type=skill"}

\* Filter strings: four that parse, and the rejected ones.
FilterStrings ==
  {"(type=skill)", " ( tag = * ) ", "(&(type=skill)(tag=t1))", "(!(tag=\\(a\\) ))"}
    \cup RejectedStrings

MaxCalls == 4

InitCache ==
  /\ InitIndex
  /\ \E arg \in CacheSizeArgs : filterCache = FilterAstCache(arg)
  /\ calls = <<>>
  /\ InitStore

\* The strings cached, oldest first.
cacheKeys(cache) == [i \in 1..Len(cache) |-> cache[i].filter]

\* The number of objects parseFilter has made.
allocated == Cardinality({i \in 1..Len(calls) : calls[i].ok /\ ~calls[i].hit})

\* One getOrParse call as the history keeps it: the string, whether it
\* returned, whether it was a hit, the address of the object returned (0
\* when it threw) and the cached strings before and after.
Called(filter, called, before) ==
  [filter |-> filter, ok |-> called.ok, hit |-> called.hit,
   ref |-> IF called.ok THEN called.node.ref ELSE 0,
   before |-> cacheKeys(before), after |-> cacheKeys(called.self.cache)]

\* filterCache.getOrParse(filter)
GetOrParse ==
  /\ Len(calls) < MaxCalls
  /\ \E filter \in FilterStrings :
       \E called \in {getOrParse(filterCache, filter, allocated + 1)} :
         /\ filterCache' = called.self
         /\ calls' = Append(calls, Called(filter, called, filterCache.cache))
         /\ last' = [op |-> "getOrParse", filter |-> filter, ok |-> called.ok,
                     hit |-> called.hit, sizeBefore |-> Len(filterCache.cache)]
  /\ UNCHANGED <<index, ingested, applied, assigned,
                 changes, mainPc, lastSeq, pollInFlight, polls, handled, loaded, storeVars>>

NextCache == GetOrParse

SpecCache == InitCache /\ [][NextCache]_vars

(***************************************************************************)
(* The daemon serving GET /core/search on a loaded index, run with         *)
(* ELDAPPO_FILTER_CACHE_SIZE=1.                                            *)
(***************************************************************************)
NoQuery ==
  [filter |-> NullStr, q |-> NullStr, limit |-> Undefined, cursor |-> NullStr,
   sort |-> NullStr, view |-> NullStr]

ServeFilters ==
  {"(type=skill)", "(tag=t2)", "(tag=__never__)", " ", "(|)", "(type=skill)x", "(attrs.=x)"}

\* Limit texts: 0, 1, 2.5, 200, 201 and one that is no number.
ServeLimits == {Num(0), Num(2), Num(5), Num(400), Num(402), [kind |-> "nan"]}

ServeCursors ==
  {encodeCursor([updated_at |-> TimeStr(1), id |-> IdStr(2)]), "bm90LWpzb24", "{id:e1}"}

ServeQueries ==
  {NoQuery}
    \cup {[NoQuery EXCEPT !.filter = f] : f \in ServeFilters}
    \cup {[NoQuery EXCEPT !.limit = l] : l \in ServeLimits}
    \cup {[NoQuery EXCEPT !.cursor = c, !.sort = o] :
            c \in ServeCursors, o \in {NullStr, "none", "updated_at_desc"}}
    \cup {[NoQuery EXCEPT !.sort = o] : o \in {"none", "rev"}}
    \cup {[NoQuery EXCEPT !.view = v] : v \in {"ids", "full", "table"}}
    \cup {[NoQuery EXCEPT !.filter = "(type=skill)", !.limit = Num(2)],
          [NoQuery EXCEPT !.filter = "(type=skill)", !.cursor = "bm90LWpzb24"],
          [NoQuery EXCEPT !.filter = "(|)", !.limit = Num(0)],
          [NoQuery EXCEPT !.q = " PDF ", !.limit = Num(2)]}

InitServe ==
  /\ InitIndex
  /\ filterCache = FilterAstCache(Num(2))
  /\ calls = <<>>
  /\ InitStore

\* GET /core/search?...
HandleSearch(raw, requester) ==
  /\ Idle
  /\ \E answered \in {handleSearch(index, filterCache, raw, requester, allocated + 1)} :
       /\ filterCache' = answered.cache
       /\ last' = [op |-> "handleSearch", raw |-> raw, requester |-> requester,
                   response |-> answered.response]
  /\ UNCHANGED <<index, ingested, applied, assigned,
                 changes, mainPc, lastSeq, pollInFlight, polls, handled, loaded, calls, storeVars>>

HandleSearchSome ==
  \E raw \in ServeQueries, requester \in {Anonymous, [isAuthenticated |-> TRUE, groups |-> {"g1"}]} :
    HandleSearch(raw, requester)

NextServe == Rebuild \/ HandleSearchSome \/ Return

SpecServe == InitServe /\ [][NextServe]_vars

(***************************************************************************)
(* daemon/server.ts: GET /core/changes (app/v1/changes/route.ts holds the  *)
(* same loop).  The handler awaits the store once per round of its while   *)
(* loop, so the log may grow between two rounds.                           *)
(***************************************************************************)
CHANGES_LIMIT_DEFAULT == 100
CHANGES_LIMIT_MAX == 1000
SCAN_WINDOW_MIN == 200
SCAN_WINDOW_MAX == 5000

\* z.coerce.number().int().min(min).default(byDefault)
coerceIntFrom(raw, min, byDefault) ==
  IF raw = Undefined THEN [ok |-> TRUE, value |-> byDefault]
  ELSE IF ~isFinite(raw) THEN [ok |-> FALSE, value |-> 0]
  ELSE IF raw.halves % 2 # 0 THEN [ok |-> FALSE, value |-> 0]
  ELSE IF floor(raw) < min THEN [ok |-> FALSE, value |-> 0]
  ELSE [ok |-> TRUE, value |-> floor(raw)]

\* changesQuerySchema.parse: ok = FALSE stands for the thrown ZodError.
changesQuerySchema(raw) ==
  [ok |-> /\ coerceIntFrom(raw.since, 0, 0).ok
          /\ coerceInt(raw.limit, 1, CHANGES_LIMIT_MAX, CHANGES_LIMIT_DEFAULT).ok,
   since |-> coerceIntFrom(raw.since, 0, 0).value,
   limit |-> coerceInt(raw.limit, 1, CHANGES_LIMIT_MAX, CHANGES_LIMIT_DEFAULT).value]

\* const scanWindow = Math.min(Math.max(query.limit * 5, 200), 5000)
scanWindow(limit) == Min(Max(limit * 5, SCAN_WINDOW_MIN), SCAN_WINDOW_MAX)

\* SELECT ... FROM changes c JOIN entries e ... WHERE c.seq > $1
\* ORDER BY c.seq ASC LIMIT $2
joinedAfter(log, since) ==
  SelectSeq(log, LAMBDA row : row.seq > since /\ row.entry # NULL)

selectChanges(log, since, window) ==
  SubSeq(joinedAfter(log, since), 1, Min(Len(joinedAfter(log, since)), window))

changeEvent(row) ==
  [seq |-> row.seq, id |-> row.id, rev |-> row.rev,
   change_type |-> row.change_type, changed_at |-> row.changed_at]

\* Variant: only a visible row moves scannedSince.
scanRowVisibleOnly(scanned, row, requester) ==
  IF ~canSee([attrs |-> normalizeAttrs(row.entry.attrs)], requester)
  THEN scanned
  ELSE [scannedSince |-> row.seq, events |-> Append(scanned.events, changeEvent(row))]

\* One pass of the for loop's body.
scanRow(scanned, row, requester) ==
  IF ~canSee([attrs |-> normalizeAttrs(row.entry.attrs)], requester)
  THEN [scanned EXCEPT !.scannedSince = row.seq]
  ELSE [scannedSince |-> row.seq, events |-> Append(scanned.events, changeEvent(row))]

\* The for loop's body on one row; after the break no row is looked at.
scanNext(scanned, row, limit, requester) ==
  IF Len(scanned.events) >= limit THEN scanned ELSE scanRow(scanned, row, requester)

\* for (const row of rows), left when events.length >= query.limit: the
\* rows lo..hi in order.  The range is halved, and the first half is
\* evaluated before the second is entered, so that a window of hundreds of
\* rows does not nest as deep as it is long.
RECURSIVE scanRows(_, _, _, _, _, _)
scanRows(rows, lo, hi, scanned, limit, requester) ==
  IF lo > hi THEN scanned
  ELSE IF lo = hi THEN scanNext(scanned, rows[lo], limit, requester)
  ELSE CHOOSE after \in
         {scanRows(rows, (lo + hi) \div 2 + 1, hi, before, limit, requester) :
            before \in {scanRows(rows, lo, (lo + hi) \div 2, scanned, limit, requester)}} :
         TRUE

\* Whether the while loop is left after a round that fetched rows and got
\* to scanned.
scanDone(request, rows, scanned) ==
  \/ Len(rows) = 0
  \/ Len(rows) < scanWindow(request.limit)
  \/ Len(scanned.events) >= request.limit

withScanned(request, scanned) ==
  [request EXCEPT !.scannedSince = scanned.scannedSince, !.events = scanned.events]

\* One round of the while loop on the rows the store returned.
scanRound(request, rows) ==
  withScanned(request,
              scanRows(rows, 1, Len(rows),
                       [scannedSince |-> request.scannedSince, events |-> request.events],
                       request.limit, request.requester))

changesResponse(request) ==
  sendJson(200, [next_since |-> request.scannedSince, events |-> request.events])

(***************************************************************************)
(* The change feed over a growing log.  The store starts empty or with a   *)
(* backlog of FeedBacklog revisions of one restricted entry, one short of  *)
(* the smallest scan window, and the writer appends rows while requests    *)
(* are answered.                                                           *)
(***************************************************************************)
FeedBacklog == 199

\* The rows the writer may append after a backlog.
FeedAppends == 2

Backlog ==
  [i \in 1..FeedBacklog |->
     [seq |-> i, id |-> IdStr(1), rev |-> i,
      change_type |-> "publish", changed_at |-> TimeStr(Min(i, MaxTime)),
      entry |-> EntryRecord(IdStr(1), i, TimeStr(Min(i, MaxTime)),
                            CHOOSE p \in TailPayloads : readVisibility(p.attrs) = "restricted")]]

InitFeed ==
  /\ index = reset
  /\ ingested = 0
  /\ applied = EmptyMap
  /\ last = [op |-> "new"]
  /\ assigned = [ever |-> EmptyMap, sinceReset |-> EmptyMap]
  /\ changes \in {<<>>, Backlog}
  /\ mainPc = "loadSnapshot"
  /\ lastSeq = 0
  /\ pollInFlight = FALSE
  /\ polls = <<>>
  /\ handled = <<>>
  /\ loaded = <<>>
  /\ filterCache = FilterAstCache(Num(2 * DEFAULT_FILTER_CACHE_SIZE))
  /\ calls = <<>>
  /\ InitStore

\* The longest log of the scenario the store is in.
FeedMax == IF Len(changes) >= FeedBacklog THEN FeedBacklog + FeedAppends ELSE MaxSeq

FeedPublish == PublishRow(FeedMax)

FeedOrphan == OrphanRow(FeedMax)

FeedQueries ==
  {[since |-> since, limit |-> limit] :
     since \in {Undefined, Num(1), Num(2), Num(4), Num(2 * FeedBacklog)},
     limit \in {Undefined, Num(0), Num(2), Num(4)}}

\* GET /core/changes?..., up to the first await.
HandleChangesStart(raw, requester) ==
  /\ Idle
  /\ scan = NoScan
  /\ \E query \in {changesQuerySchema(raw)} :
       IF ~query.ok
       THEN /\ last' = [op |-> "handleChanges", raw |-> raw, requester |-> requester,
                        response |-> sendZodError]
            /\ scan' = scan
       ELSE /\ scan' = [pc |-> "querying", raw |-> raw, since |-> query.since,
                        limit |-> query.limit, requester |-> requester,
                        scannedSince |-> query.since, events |-> <<>>]
            /\ last' = last
  /\ UNCHANGED <<index, ingested, applied, assigned,
                 changes, mainPc, lastSeq, pollInFlight, polls, handled, loaded,
                 filterCache, calls, db, txs>>

\* The store answers the query of one round: the handler scans the rows and
\* either awaits the next round or responds.
scanAnswered(rows) ==
  \E next \in {IF Len(rows) = 0 THEN scan ELSE scanRound(scan, rows)} :
    IF scanDone(scan, rows, next)
    THEN /\ last' = [op |-> "handleChanges", raw |-> scan.raw, requester |-> scan.requester,
                     since |-> scan.since, limit |-> scan.limit,
                     response |-> changesResponse(next)]
         /\ scan' = NoScan
    ELSE /\ scan' = next
         /\ last' = last

HandleChangesRound ==
  /\ scan.pc = "querying"
  /\ scanAnswered(selectChanges(changes, scan.scannedSince, scanWindow(scan.limit)))
  /\ UNCHANGED <<index, ingested, applied, assigned,
                 changes, mainPc, lastSeq, pollInFlight, polls, handled, loaded,
                 filterCache, calls, db, txs>>

HandleChangesSome ==
  \E raw \in FeedQueries, requester \in {Anonymous, [isAuthenticated |-> TRUE, groups |-> {"g1"}]} :
    HandleChangesStart(raw, requester)

NextFeed == FeedPublish \/ FeedOrphan \/ HandleChangesSome \/ HandleChangesRound \/ Return

SpecFeed == InitFeed /\ [][NextFeed]_vars

(***************************************************************************)
(* The writer path: POST /v1/entries/publish and POST                      *)
(* /v1/entries/{id}/setStatus, each one transaction (db.begin) of several  *)
(* awaited statements.  Statements of different connections interleave.    *)
(* A statement reads the committed tables and the rows its own transaction *)
(* has written; an insert of a key that another open transaction has       *)
(* inserted waits for that transaction to end; an insert of a committed    *)
(* key fails, which rolls the transaction back.                            *)
(***************************************************************************)
\* The store holds at most this many revisions, open transactions counted.
MaxRevisions == 3

Statuses == {"active", "disabled"}

\* DEFAULT now() of created_at, updated_at and changed_at.
storeNow == TimeStr(Min(Cardinality(db.entries) + 1, MaxTime))

EntryKeys(rows) == {[id |-> row.id, rev |-> row.rev] : row \in rows}

\* The rows of a table that transaction conn sees.
Seen(conn, table) == db[table] \cup txs[conn][table]

Open(conn) == txs[conn].pc # "idle"

\* The keys other open transactions have inserted into a table.
HeldByOthers(conn, table) ==
  UNION {EntryKeys(txs[other][table]) : other \in {c \in Conns \ {conn} : Open(c)}}

HeldIdsByOthers(conn, table) == {key.id : key \in HeldByOthers(conn, table)}

\* Room for one more request: revisions committed or under way, and values
\* drawn from the sequence.
Room ==
  /\ Cardinality(db.entries) + Cardinality({conn \in Conns : Open(conn)}) < MaxRevisions
  /\ db.changes_seq < MaxRevisions

\* The part of an entries row other than id, rev and updated_at.
PayloadOf(row) ==
  [type |-> row.type, namespace |-> row.namespace, name |-> row.name,
   description |-> row.description, version |-> row.version, attrs |-> row.attrs]

\* What the writer path leaves alone.
readVars ==
  <<index, ingested, applied, assigned,
    changes, mainPc, lastSeq, pollInFlight, polls, handled, loaded,
    filterCache, calls, scan>>

\* POST /v1/entries/publish up to the first statement of the transaction.
BeginPublish(conn, id, p) ==
  /\ ~Open(conn)
  /\ Room
  /\ txs' = [txs EXCEPT ![conn] =
               [NoTx EXCEPT !.pc = "selectNextRev", !.op = "publish", !.id = id,
                            !.entry = [p EXCEPT !.attrs = normalizeAttrs(p.attrs)]]]
  /\ UNCHANGED <<db, last>>
  /\ UNCHANGED readVars

\* SELECT COALESCE(MAX(rev), 0) + 1 AS next_rev FROM entries WHERE id = $1
nextRevOf(rows, id) == SetMax({row.rev : row \in {r \in rows : r.id = id}}) + 1

SelectNextRev(conn) ==
  /\ txs[conn].pc = "selectNextRev"
  /\ txs' = [txs EXCEPT
               ![conn].pc = "insertEntry",
               ![conn].nextRev = nextRevOf(Seen(conn, "entries"), txs[conn].id)]
  /\ UNCHANGED <<db, last>>
  /\ UNCHANGED readVars

\* POST /v1/entries/{id}/setStatus up to the first statement.
BeginSetStatus(conn, id, status) ==
  /\ ~Open(conn)
  /\ Room
  /\ txs' = [txs EXCEPT ![conn] =
               [NoTx EXCEPT !.pc = "selectLatest", !.op = "setStatus", !.id = id,
                            !.status = status]]
  /\ UNCHANGED <<db, last>>
  /\ UNCHANGED readVars

\* SELECT ... FROM entries WHERE id = $1 ORDER BY rev DESC LIMIT 1
latestOf(rows, id) ==
  {row \in rows : row.id = id /\ \A other \in rows : other.id = id => other.rev <= row.rev}

\* nextAttrs.status = [parsedBody.status]
withStatus(attrs, status) ==
  [key \in DOMAIN attrs \cup {"status"} |-> IF key = "status" THEN <<status>> ELSE attrs[key]]

writeResponse(op, id, rev, status) == [op |-> op, id |-> id, rev |-> rev, status |-> status]

\* The transaction's callback threw: ROLLBACK, and errorResponse.
Rollback(conn, status) ==
  /\ txs' = [txs EXCEPT ![conn] = NoTx]
  /\ last' = writeResponse(txs[conn].op, txs[conn].id, 0, status)
  /\ db' = db

SelectLatest(conn) ==
  /\ txs[conn].pc = "selectLatest"
  /\ \E found \in {latestOf(Seen(conn, "entries"), txs[conn].id)} :
       IF found = {}
       THEN Rollback(conn, 404)
       ELSE /\ \E latest \in found :
                 txs' = [txs EXCEPT
                           ![conn].pc = "insertEntry",
                           ![conn].nextRev = latest.rev + 1,
                           ![conn].entry =
                              [PayloadOf(latest) EXCEPT
                                 !.attrs = withStatus(normalizeAttrs(latest.attrs),
                                                      txs[conn].status)]]
            /\ UNCHANGED <<db, last>>
  /\ UNCHANGED readVars

\* INSERT INTO entries (...) VALUES (...) RETURNING id, rev, updated_at
InsertEntry(conn) ==
  /\ txs[conn].pc = "insertEntry"
  /\ [id |-> txs[conn].id, rev |-> txs[conn].nextRev] \notin HeldByOthers(conn, "entries")
  /\ IF [id |-> txs[conn].id, rev |-> txs[conn].nextRev] \in EntryKeys(db.entries)
     THEN Rollback(conn, 500)
     ELSE /\ txs' = [txs EXCEPT
                       ![conn].pc = IF txs[conn].op = "publish" THEN "upsertLatest" ELSE "commit",
                       ![conn].entries =
                          {EntryRecord(txs[conn].id, txs[conn].nextRev, storeNow,
                                       txs[conn].entry)}]
          /\ UNCHANGED <<db, last>>
  /\ UNCHANGED readVars

\* INSERT INTO entries_latest (...) SELECT ... FROM entries WHERE id = $1 AND
\* rev = $2 ON CONFLICT (id) DO UPDATE SET ... WHERE entries_latest.rev <=
\* EXCLUDED.rev
upsertLatest(latestRows, selected) ==
  {row \in selected :
     \A kept \in latestRows : kept.id = row.id => kept.rev <= row.rev}

UpsertLatest(conn) ==
  /\ txs[conn].pc = "upsertLatest"
  /\ txs[conn].id \notin HeldIdsByOthers(conn, "entries_latest")
  /\ txs' = [txs EXCEPT
               ![conn].pc = "insertChange",
               ![conn].entries_latest =
                  upsertLatest(db.entries_latest,
                               {row \in Seen(conn, "entries") :
                                  row.id = txs[conn].id /\ row.rev = txs[conn].nextRev})]
  /\ UNCHANGED <<db, last>>
  /\ UNCHANGED readVars

\* INSERT INTO changes (id, rev, change_type) VALUES ($1, $2, 'publish'): seq
\* is drawn from the sequence, which no rollback gives back.
InsertChange(conn) ==
  /\ txs[conn].pc = "insertChange"
  /\ txs' = [txs EXCEPT
               ![conn].pc = "commit",
               ![conn].changes =
                  {[seq |-> db.changes_seq + 1, id |-> txs[conn].id, rev |-> txs[conn].nextRev,
                    change_type |-> "publish", changed_at |-> storeNow]}]
  /\ db' = [db EXCEPT !.changes_seq = @ + 1]
  /\ UNCHANGED last
  /\ UNCHANGED readVars

\* COMMIT: the transaction's rows become the tables' rows at once.
committed(conn) ==
  [entries |-> db.entries \cup txs[conn].entries,
   entries_latest |->
     {row \in db.entries_latest : row.id \notin {new.id : new \in txs[conn].entries_latest}}
       \cup txs[conn].entries_latest,
   changes |-> db.changes \cup txs[conn].changes,
   changes_seq |-> db.changes_seq]

Commit(conn) ==
  /\ txs[conn].pc = "commit"
  /\ db' = committed(conn)
  /\ txs' = [txs EXCEPT ![conn] = NoTx]
  /\ last' = writeResponse(txs[conn].op, txs[conn].id, txs[conn].nextRev, 200)
  /\ UNCHANGED readVars

\* The connection is lost or a statement fails: the transaction is rolled
\* back.
Abort(conn) ==
  /\ Open(conn)
  /\ Rollback(conn, 500)
  /\ UNCHANGED readVars

StoreStep(conn) ==
  \/ \E id \in Ids, p \in TailPayloads : BeginPublish(conn, id, p)
  \/ \E id \in Ids, status \in Statuses : BeginSetStatus(conn, id, status)
  \/ SelectNextRev(conn)
  \/ SelectLatest(conn)
  \/ InsertEntry(conn)
  \/ UpsertLatest(conn)
  \/ InsertChange(conn)
  \/ Commit(conn)
  \/ Abort(conn)

NextStore == \E conn \in Conns : StoreStep(conn)

SpecStore == Init /\ [][NextStore]_vars

(***************************************************************************)
(* parseRequester on its own, over the settings of the environment and the *)
(* headers a request may carry.                                            *)
(***************************************************************************)
TrustedHeaderSettings == {NullStr, "true", "false", "TRUE"}

AuthorizationHeaders == {NullStr, "", "Bearer token"}

SubjectHeaders == {NullStr, "", "user-1"}

GroupsHeaders == {NullStr, "", "g1", "g1,g2", " g1 , g1", "g1,,g2 ", " , ", ",g2"}

ParseRequester(env, headers) ==
  /\ last' = [op |-> "parseRequester", env |-> env, headers |-> headers,
              requester |-> parseRequester(env, headers)]
  /\ UNCHANGED <<index, ingested, applied, assigned>>
  /\ UNCHANGED daemonVars

RequestHeaders ==
  [authorization : AuthorizationHeaders, sub : SubjectHeaders, groups : GroupsHeaders]

ParseRequesterSome ==
  \E env \in TrustedHeaderSettings, headers \in RequestHeaders :
    ParseRequester(env, headers)

NextAccess == ParseRequesterSome

SpecAccess == Init /\ [][NextAccess]_vars

(***************************************************************************)
(* Properties.  The reference semantics below is stated on entries alone,  *)
(* without postings: a filter's meaning on one document, and the scan that *)
(* visits every live document.                                             *)
(***************************************************************************)
LiveEntries(idx) == {idx.docs[d].entry : d \in DOMAIN idx.docs}

\* The (scope, key) pairs on which an entry has a value.
HasValue(entry, scope, key) ==
  IF scope = "top"
  THEN IF key = "rev" THEN TRUE
       ELSE entry[key] # NullStr /\ entry[key] # ""
  ELSE Len(AttrValues(entry.attrs, key)) > 0

\* The (scope, key) pairs that exist on an entry: a top-level field with a
\* value, or an attribute key of attrs, whatever its value list.
KeyExists(entry, scope, key) ==
  IF scope = "top" THEN HasValue(entry, scope, key) ELSE key \in DOMAIN entry.attrs

\* The values an entry has on (scope, key), as text.
ValuesOf(entry, scope, key) ==
  IF scope = "top"
  THEN IF HasValue(entry, scope, key) THEN {TopLevelValue(entry, key)} ELSE {}
  ELSE Range(AttrValues(entry.attrs, key))

RECURSIVE Matches(_, _)
Matches(entry, ast) ==
  IF ast.kind = "null" THEN TRUE
  ELSE IF ast.kind = "eq"
  THEN LET resolved == resolveFilterKey(ast.key)
       IN ast.value \in ValuesOf(entry, resolved.kind, resolved.key)
  ELSE IF ast.kind = "present"
  THEN LET resolved == resolveFilterKey(ast.key)
       IN KeyExists(entry, resolved.kind, resolved.key)
  ELSE IF ast.kind = "and"
  THEN \A i \in 1..Len(ast.children) : Matches(entry, ast.children[i])
  ELSE IF ast.kind = "or"
  THEN \E i \in 1..Len(ast.children) : Matches(entry, ast.children[i])
  ELSE ~Matches(entry, ast.child)

\* A set of entries with distinct ids, listed by (updated_at desc, id desc).
RECURSIVE Listed(_)
Listed(entries) ==
  IF entries = {} THEN <<>>
  ELSE LET first == CHOOSE e \in entries :
                      \A o \in entries \ {e} :
                        \/ StrLess(o.updated_at, e.updated_at)
                        \/ (o.updated_at = e.updated_at /\ StrLess(o.id, e.id))
       IN <<first>> \o Listed(entries \ {first})

NaiveScan(idx, ast, requester) ==
  Listed({e \in LiveEntries(idx) : canSee(e, requester) /\ Matches(e, ast)})

Take(seq, n) == SubSeq(seq, 1, Min(n, Len(seq)))

ReturnedEntries(result) == [i \in 1..Len(result.items) |-> result.items[i].entry]

\* A search without cursor and without text query has returned normally.
PlainSearchReturned ==
  /\ last.op = "search"
  /\ last.options.cursor = NULL
  /\ last.options.q = NullStr
  /\ ~last.result.err

C2_NoHiddenEntryReturned ==
  /\ last.op = "search" =>
       \A i \in 1..Len(last.result.items) :
         /\ last.result.items[i].entry \in LiveEntries(index)
         /\ canSee(last.result.items[i].entry, last.requester)
  /\ (last.op = "read" /\ last.result.found) =>
       /\ last.result.entry \in LiveEntries(index)
       /\ canSee(last.result.entry, last.requester)
  /\ last.op = "batchGet" =>
       \A i \in 1..Len(last.result.items) :
         /\ last.result.items[i].entry \in LiveEntries(index)
         /\ canSee(last.result.items[i].entry, last.requester)

\* A search over two live documents returned one of them to a requester in
\* group g2 and withheld the other, a second revision restricted to g1.
C2_Witness ==
  /\ last.op = "search"
  /\ last.requester = [isAuthenticated |-> TRUE, groups |-> {"g2"}]
  /\ Len(last.result.items) = 1
  /\ \E e \in LiveEntries(index) :
       /\ e.rev = 2
       /\ readVisibility(e.attrs) = "restricted"
       /\ ~canSee(e, last.requester)
       /\ Matches(e, last.filterAst)

StoredRev(idx, id) == idx.docs[idx.idToDoc[id]].entry.rev

\* The step is an applyChange call that carried an entry.
AppliedRow == last'.op = "applyChange" /\ last'.row # NULL

\* C3: across applyChange calls the rev stored for an id never decreases and
\* is the highest rev applied for that id; an applyChange whose rev is below
\* the stored rev leaves the whole index unchanged, and read(id) still
\* returns the stored revision to every requester who may see it.
C3_RevMonotone ==
  [][last'.op = "applyChange" =>
       /\ \A id \in DOMAIN index.idToDoc :
            /\ id \in DOMAIN index'.idToDoc
            /\ StoredRev(index', id) >= StoredRev(index, id)
       /\ \A id \in DOMAIN index'.idToDoc : StoredRev(index', id) = applied'[id]
       /\ (/\ last'.row # NULL
           /\ last'.id \in DOMAIN index.idToDoc
           /\ StoredRev(index, last'.id) > last'.rev) =>
            /\ index' = index
            /\ \A r \in Requesters :
                 canSee(StoredEntry(index, last'.id), r) =>
                   read(index', last'.id, r) =
                     [found |-> TRUE, entry |-> StoredEntry(index, last'.id)]
    ]_vars

\* An applyChange carried rev 1 for an id stored at rev 2, and the index
\* still holds rev 2.
C3_Witness ==
  /\ last.op = "applyChange"
  /\ last.row # NULL
  /\ last.replaced # NULL
  /\ last.replaced.rev = 2
  /\ last.rev = 1
  /\ StoredEntry(index, last.id) = last.replaced

\* C4 as stated: an applyChange whose rev is not strictly greater than the
\* stored rev of its id is ignored and leaves the index unchanged, also when
\* it carries a different entry at the stored rev.
C4_NotGreaterRevIgnored ==
  [][(/\ AppliedRow
      /\ last'.id \in DOMAIN index.idToDoc
      /\ StoredRev(index, last'.id) >= last'.rev) => index' = index
    ]_vars

\* C5: applying a change to the index twice in a row gives the same
\* snapshot (every field of the index) as applying it once.
C5_ApplyChangeIdempotent ==
  \A row \in Entries :
    LET change == [id |-> row.id, rev |-> row.rev]
        once == applyChange(index, change, row)
    IN applyChange(once, change, row) = once

\* The same change was applied twice in a row, and the index holds its entry.
C5_Witness ==
  /\ last.op = "applyChange"
  /\ last.again
  /\ last.replaced = last.row
  /\ StoredEntry(index, last.id) = last.row

\* The (scope, key, value) triples an entry has.
Triples(entry) ==
  UNION {{<<"top", k, v>> : v \in ValuesOf(entry, "top", k)} : k \in Range(TOP_LEVEL_INDEX_FIELDS)} \cup
  UNION {{<<"attr", k, v>> : v \in ValuesOf(entry, "attr", k)} : k \in DOMAIN entry.attrs}

\* The (scope, key) pairs that exist on an entry.
ExistingKeys(entry) ==
  {<<"top", k>> : k \in {f \in Range(TOP_LEVEL_INDEX_FIELDS) : KeyExists(entry, "top", f)}}
    \cup {<<"attr", k>> : k \in DOMAIN entry.attrs}

\* Every triple of every live doc is posted, and a doc is in no equality
\* posting but those of its triples.
EqualityCoverage ==
  \A d \in DOMAIN index.docs :
    LET triples == Triples(index.docs[d].entry)
    IN /\ \A t \in triples :
            /\ getPosting(index, eqToken(t[1], t[2], t[3])).found
            /\ d \in getPosting(index, eqToken(t[1], t[2], t[3])).bitmap
            /\ getPosting(index, presentToken(t[1], t[2])).found
            /\ d \in getPosting(index, presentToken(t[1], t[2])).bitmap
       /\ \A token \in DOMAIN index.tokenToPosting :
            d \in index.tokenToPosting[token] =>
              token \in {eqToken(t[1], t[2], t[3]) : t \in triples}

\* C6 as stated: every triple of a live doc is in its equality and presence
\* postings, and the doc is in no other posting; no presence posting holds
\* it for a key on which it has no value.
C6_TokenCoverage ==
  /\ EqualityCoverage
  /\ \A d \in DOMAIN index.docs :
       \A token \in DOMAIN index.presenceToPosting :
         d \in index.presenceToPosting[token] =>
           token \in {presentToken(t[1], t[2]) : t \in Triples(index.docs[d].entry)}

\* C6 amended: every triple of a live doc is in its equality and presence
\* postings, the doc is in no other equality posting, and it is in exactly
\* the presence postings of the keys that exist on it: the top-level fields
\* with a value and every key of attrs, a key with an empty value list
\* included.
C6_TokenCoverageKeyExists ==
  /\ EqualityCoverage
  /\ \A d \in DOMAIN index.docs :
       /\ \A k \in ExistingKeys(index.docs[d].entry) :
            /\ getPosting(index, presentToken(k[1], k[2])).found
            /\ d \in getPosting(index, presentToken(k[1], k[2])).bitmap
       /\ \A token \in DOMAIN index.presenceToPosting :
            d \in index.presenceToPosting[token] =>
              token \in {presentToken(k[1], k[2]) : k \in ExistingKeys(index.docs[d].entry)}

\* An applyChange replaced a revision by one whose endpoint key has an empty
\* value list: the doc is in the endpoint presence posting, and the old
\* revision had triples the new one lacks.
C6_Witness ==
  /\ last.op = "applyChange"
  /\ last.row # NULL
  /\ last.replaced # NULL
  /\ StoredEntry(index, last.id) = last.row
  /\ "endpoint" \in DOMAIN last.row.attrs
  /\ Len(last.row.attrs.endpoint) = 0
  /\ index.idToDoc[last.id] \in getPosting(index, presentToken("attr", "endpoint")).bitmap
  /\ Triples(last.replaced) \ Triples(last.row) # {}

\* C7: every live doc id is in exactly one of the public, internal and
\* restricted sets, the one of its current visibility; it is in
\* group_posting[g] iff it is restricted and g is in its allowed_group.
C7_VisibilityPartition ==
  /\ \A d \in DOMAIN index.docs :
       LET entry == index.docs[d].entry
           visibility == readVisibility(entry.attrs)
       IN /\ d \in index.visibilityPublic <=> visibility = "public"
          /\ d \in index.visibilityInternal <=> visibility = "internal"
          /\ d \in index.visibilityRestricted <=> visibility = "restricted"
          /\ \A g \in Groups \cup DOMAIN index.groupToPosting :
               (g \in DOMAIN index.groupToPosting /\ d \in index.groupToPosting[g]) <=>
                 (visibility = "restricted"
                    /\ g \in Range(AttrValues(entry.attrs, "allowed_group")))
  /\ index.visibilityPublic \cup index.visibilityInternal \cup index.visibilityRestricted
       \cup UNION {index.groupToPosting[g] : g \in DOMAIN index.groupToPosting}
       \subseteq DOMAIN index.docs

\* An applyChange moved a doc out of the restricted set and its groups.
C7_Witness ==
  /\ last.op = "applyChange"
  /\ last.row # NULL
  /\ last.replaced # NULL
  /\ StoredEntry(index, last.id) = last.row
  /\ readVisibility(last.replaced.attrs) = "restricted"
  /\ readVisibility(last.row.attrs) # "restricted"
  /\ index.idToDoc[last.id] \notin index.visibilityRestricted

\* The universe is the registry, every id leads to the one registry record
\* that carries it, and every registry record is led to by its id.
RegistryConsistent(idx) ==
  /\ idx.universe = DOMAIN idx.docs
  /\ \A id \in DOMAIN idx.idToDoc :
       /\ idx.idToDoc[id] \in DOMAIN idx.docs
       /\ idx.docs[idx.idToDoc[id]].entry.id = id
  /\ \A d \in DOMAIN idx.docs :
       /\ idx.docs[d].docId = d
       /\ idx.docs[d].entry.id \in DOMAIN idx.idToDoc
       /\ idx.idToDoc[idx.docs[d].entry.id] = d

\* Every id known before the step is known after it, under the same doc id.
DocIdsKept ==
  \A id \in DOMAIN index.idToDoc :
    id \in DOMAIN index'.idToDoc => index'.idToDoc[id] = index.idToDoc[id]

\* C8 as stated: after any sequence of buildFromSnapshot and applyChange the
\* universe is the registry, an id has one doc id whose record carries that
\* id, and an id keeps its doc id across every later call.
C8_RegistryConsistency ==
  [][RegistryConsistent(index') /\ DocIdsKept]_vars

\* C8 amended: the universe is the registry, an id has one doc id whose
\* record carries that id, and an id keeps its doc id across applyChange
\* calls, until the next buildFromSnapshot assigns doc ids afresh.
C8_RegistryConsistencyUntilRebuild ==
  [][/\ RegistryConsistent(index')
     /\ last'.op = "applyChange" =>
          /\ DocIdsKept
          /\ DOMAIN index.idToDoc \subseteq DOMAIN index'.idToDoc
    ]_vars

\* An applyChange put rev 2 of an id in place of its rev 1, under the doc id
\* the id had.
C8_Witness ==
  /\ last.op = "applyChange"
  /\ last.row # NULL
  /\ last.replaced # NULL
  /\ last.replaced.rev = 1
  /\ last.row.rev = 2
  /\ StoredEntry(index, last.id) = last.row
  /\ index.idToDoc[last.id] = 1
  /\ index.nextDocId = 2

\* C9: after every call the sort vector lists every universe doc id exactly
\* once and nothing else, in (updated_at desc, id desc) order of the current
\* revisions, and the rank map gives each doc id its index in the vector.
C9_SortTotality ==
  LET order == index.updatedOrder
  IN /\ Len(order) = Cardinality(index.universe)
     /\ Range(order) = index.universe
     /\ \A i, j \in 1..Len(order) :
          i < j =>
            compareSortKeys(index.docs[order[i]].entry.updated_at, index.docs[order[i]].entry.id,
                            index.docs[order[j]].entry.updated_at, index.docs[order[j]].entry.id) < 0
     /\ DOMAIN index.docSortRank = index.universe
     /\ \A i \in 1..Len(order) : index.docSortRank[order[i]] = i - 1

\* An applyChange registered a second doc that sorts before the first.
C9_Witness ==
  /\ last.op = "applyChange"
  /\ last.row # NULL
  /\ last.replaced = NULL
  /\ index.updatedOrder = <<2, 1>>
  /\ index.idToDoc[last.id] = 2

\* The tokens an entry holds: one per triple and one per existing key.
TokensOf(entry) ==
  {eqToken(t[1], t[2], t[3]) : t \in Triples(entry)}
    \cup {presentToken(k[1], k[2]) : k \in ExistingKeys(entry)}

AllTokens == UNION {TokensOf(e) : e \in Entries}

\* C10: no equality, presence or group posting stored in the maps is empty,
\* and getPosting(T) is absent for every token T that no live doc holds.
C10_PostingCleanup ==
  /\ \A token \in DOMAIN index.tokenToPosting : index.tokenToPosting[token] # {}
  /\ \A token \in DOMAIN index.presenceToPosting : index.presenceToPosting[token] # {}
  /\ \A g \in DOMAIN index.groupToPosting : index.groupToPosting[g] # {}
  /\ \A token \in AllTokens :
       (\A e \in LiveEntries(index) : token \notin TokensOf(e)) =>
         ~getPosting(index, token).found

\* An applyChange moved the only holder of an equality token and of a
\* presence token off them, and both postings are gone.
C10_Witness ==
  /\ last.op = "applyChange"
  /\ last.row # NULL
  /\ last.replaced # NULL
  /\ StoredEntry(index, last.id) = last.row
  /\ Cardinality(DOMAIN index.docs) = 1
  /\ \E t \in Triples(last.replaced) \ Triples(last.row) :
       ~getPosting(index, eqToken(t[1], t[2], t[3])).found
  /\ \E k \in ExistingKeys(last.replaced) \ ExistingKeys(last.row) :
       ~getPosting(index, presentToken(k[1], k[2])).found
  /\ "g1" \in Range(AttrValues(last.replaced.attrs, "allowed_group"))
  /\ "g1" \notin DOMAIN index.groupToPosting

\* Doc ids are allocated from 1 upwards without gaps.
AllocatedFromOne(idx) ==
  /\ idx.nextDocId >= 1
  /\ DOMAIN idx.docs = 1..(idx.nextDocId - 1)

\* C11 as stated: on one index instance, doc ids are allocated starting at 1
\* and a doc id once assigned to an id is never later assigned to another
\* id, across any sequence of buildFromSnapshot and applyChange calls.
C11_DocIdNeverReused ==
  /\ AllocatedFromOne(index)
  /\ \A d \in DOMAIN assigned.ever : Cardinality(assigned.ever[d]) <= 1

\* C11 amended: doc ids are allocated starting at 1, and between two
\* buildFromSnapshot calls a doc id once assigned to an id is never assigned
\* to another id; buildFromSnapshot resets the counter to 1.
C11_DocIdNeverReusedUntilRebuild ==
  /\ AllocatedFromOne(index)
  /\ \A d \in DOMAIN assigned.sinceReset : Cardinality(assigned.sinceReset[d]) <= 1
  /\ last.op = "buildFromSnapshot" =>
       index.nextDocId = Cardinality(DOMAIN index.idToDoc) + 1

\* After a rebuild and a later applyChange, doc id 1 belongs to an id other
\* than the one it had before the rebuild, and doc id 2 was newly allocated.
C11_Witness ==
  /\ last.op = "applyChange"
  /\ last.row # NULL
  /\ last.replaced = NULL
  /\ index.idToDoc[last.id] = 2
  /\ Cardinality(assigned.ever[1]) = 2
  /\ Cardinality(assigned.sinceReset[1]) = 1

\* The text query of a search matches an entry: no query, a blank query, or
\* the case-folded name or description contains the case-folded query.
TextMatches(entry, q) ==
  \/ q = NullStr
  \/ toLowerCase(trim(q)) = ""
  \/ includes(toLowerCase(entry.name), toLowerCase(trim(q)))
  \/ includes(toLowerCase(entry.description), toLowerCase(trim(q)))

\* The full ordered visible result of a search, stated on entries alone.
FullResult(idx, ast, q, requester) ==
  Listed({e \in LiveEntries(idx) :
            canSee(e, requester) /\ Matches(e, ast) /\ TextMatches(e, q)})

EntriesOf(hits) == [i \in 1..Len(hits) |-> hits[i].entry]

\* The page a search has returned is the next n items of the full result
\* after the pages before it, and a page without next_cursor ends the result.
PageIsNext(n) ==
  LET full == FullResult(index, last.filterAst, last.options.q, last.requester)
      seen == EntriesOf(last.earlier)
      page == EntriesOf(last.result.items)
  IN /\ page = SubSeq(full, Len(seen) + 1, Min(Len(seen) + n, Len(full)))
     /\ \A i \in 1..Len(page) : \A j \in 1..Len(seen) : page[i] # seen[j]
     /\ last.result.next_cursor = NullStr => seen \o page = full

\* C12 as stated: paging from cursor none through each returned next_cursor
\* on an unchanged index, every page holds the next `limit` items of the full
\* ordered visible result, no item is on two pages, and the pages together
\* are the full result.
C12_CursorRoundTrip ==
  (last.op = "search" /\ ~last.result.err) => PageIsNext(last.options.limit)

\* C12 amended: the same, with pages of min(max(limit, 1), 200) items.
C12_CursorRoundTripClamped ==
  (last.op = "search" /\ ~last.result.err) =>
    PageIsNext(Min(Max(last.options.limit, SEARCH_LIMIT_MIN), SEARCH_LIMIT_MAX))

\* A filtered search with limit 1 over a two-item result has reached its
\* third page, which is empty and carries no cursor.
C12_Witness ==
  /\ last.op = "search"
  /\ last.filterAst.kind # "null"
  /\ last.options.limit = 1
  /\ Len(last.earlier) = 2
  /\ last.earlier[1] # last.earlier[2]
  /\ last.result.items = <<>>
  /\ last.result.next_cursor = NullStr

ClampedLimit(options) == Min(Max(options.limit, SEARCH_LIMIT_MIN), SEARCH_LIMIT_MAX)

\* next_cursor is present exactly on a page of n items, and then decodes to
\* (updated_at, id) of the page's last item.
CursorRule(r, n) ==
  /\ r.next_cursor # NullStr <=> Len(r.items) = n
  /\ r.next_cursor # NullStr =>
       LET tail == r.items[Len(r.items)].entry
       IN decodeCursor(r.next_cursor) =
            [ok |-> TRUE, cursor |-> [updated_at |-> tail.updated_at, id |-> tail.id]]

\* The arguments search hands to its collect functions for the last call.
LastQ ==
  IF last.options.q = NullStr \/ toLowerCase(trim(last.options.q)) = ""
  THEN NullStr ELSE toLowerCase(trim(last.options.q))

LastCandidates ==
  evaluateFilterAst(last.filterAst, index).bitmap \cap getAllowedDocs(index, last.requester)

\* C13: for every search, on the selective path, the scan path and the
\* no-filter path, next_cursor is non-null iff exactly the clamped limit of
\* items was produced, and then it encodes (updated_at, id) of the last item;
\* a shorter page, an empty one included, has no next_cursor.
C13_NextCursorIffFullPage ==
  (last.op = "search" /\ ~last.result.err) =>
    /\ CursorRule(last.result, ClampedLimit(last.options))
    /\ last.filterAst # NULL =>
         /\ CursorRule(collectSelectiveResults(index, LastCandidates, last.options, LastQ,
                                               ClampedLimit(last.options)),
                       ClampedLimit(last.options))
         /\ CursorRule(collectScanResults(index, LastCandidates, last.options, LastQ,
                                          ClampedLimit(last.options)),
                       ClampedLimit(last.options))

\* A filtered search asked for two items, found two and returned a cursor,
\* and the scan over the same candidates does the same.
C13_Witness ==
  /\ last.op = "search"
  /\ last.filterAst # NULL
  /\ ~last.result.err
  /\ last.options.limit = 2
  /\ Len(last.result.items) = 2
  /\ last.result.next_cursor # NullStr
  /\ collectScanResults(index, LastCandidates, last.options, LastQ, 2).next_cursor
       = last.result.next_cursor

\* The index the daemon holds when the store has the same entries but one.
WithoutEntry(idx, id) ==
  buildFromSnapshot(idx, Listed({e \in LiveEntries(idx) : e.id # id}))

NotFoundResponse ==
  [status |-> 404,
   body |-> [error |-> [code |-> "not_found", message |-> "Entry not found."]]]

\* C14: for every requester R and id X that the index holds but R may not
\* see, read(X, R) returns none and GET /core/entries/X answers 404 not_found,
\* and both are the same on the index that differs only in lacking X.
C14_DenyIsAbsence ==
  (/\ last.op = "getEntry"
   /\ StoredEntry(index, last.id) # NULL
   /\ ~canSee(StoredEntry(index, last.id), last.requester)) =>
    LET absent == WithoutEntry(index, last.id)
    IN /\ last.id \notin DOMAIN absent.idToDoc
       /\ LiveEntries(absent) = LiveEntries(index) \ {StoredEntry(index, last.id)}
       /\ read(index, last.id, last.requester) = [found |-> FALSE]
       /\ read(absent, last.id, last.requester) = [found |-> FALSE]
       /\ last.response = NotFoundResponse
       /\ getEntry(absent, last.id, last.view, last.requester) = last.response

\* An entry the index holds beside another one has been asked for by a
\* requester who may not see it, and the answer was 404.
C14_Witness ==
  /\ last.op = "getEntry"
  /\ StoredEntry(index, last.id) # NULL
  /\ ~canSee(StoredEntry(index, last.id), last.requester)
  /\ Cardinality(LiveEntries(index)) = 2
  /\ last.requester.isAuthenticated
  /\ last.response.status = 404

Known(id) == StoredEntry(index, id) # NULL

VisibleTo(id, requester) == Known(id) /\ canSee(StoredEntry(index, id), requester)

\* C15: batchGet(ids, R) returns as items exactly the input ids that are
\* known and visible to R, in input order, one item per occurrence; omitted
\* is the number of input ids that are known but not visible to R; unknown
\* ids count for neither, so |items| + omitted <= |ids|.
C15_BatchGet ==
  last.op = "batchGet" =>
    LET ids == last.ids
        shown == SelectSeq(ids, LAMBDA id : VisibleTo(id, last.requester))
        denied == {i \in 1..Len(ids) : Known(ids[i]) /\ ~VisibleTo(ids[i], last.requester)}
    IN /\ EntriesOf(last.result.items) = [i \in 1..Len(shown) |-> StoredEntry(index, shown[i])]
       /\ last.result.omitted = Cardinality(denied)
       /\ Len(last.result.items) + last.result.omitted <= Len(ids)

\* A batch of an unknown id and an id the requester may not see has returned
\* no item and omitted = 1.
C15_Witness ==
  /\ last.op = "batchGet"
  /\ Len(last.ids) = 2
  /\ ~Known(last.ids[1])
  /\ Known(last.ids[2])
  /\ ~VisibleTo(last.ids[2], last.requester)
  /\ last.result = [items |-> <<>>, omitted |-> 1]

\* A batch naming one visible id twice has returned it twice.
C15_WitnessRepeated ==
  /\ last.op = "batchGet"
  /\ Len(last.ids) = 2
  /\ last.ids[1] = last.ids[2]
  /\ Len(last.result.items) = 2

\* A step of the timer callback.
TickStep == last'.op = "tick" /\ last' # last

\* C16: at most one poll cycle runs at any time; a tick that fires while a
\* cycle is in flight returns without fetching or applying anything; the
\* in-flight flag is cleared whenever a cycle ends, normally or by an error,
\* so that it is set exactly while a cycle is in flight.
C16_SinglePollCycle ==
  [][/\ Len(polls) <= 1
     /\ Len(polls') <= 1
     /\ pollInFlight <=> polls # <<>>
     /\ pollInFlight' <=> polls' # <<>>
     /\ (TickStep /\ pollInFlight) =>
          /\ last'.dropped
          /\ UNCHANGED <<index, lastSeq, pollInFlight, polls, handled, changes>>
     /\ (TickStep /\ ~pollInFlight) =>
          /\ ~last'.dropped
          /\ pollInFlight'
          /\ polls' = <<[pc |-> "querying", since |-> lastSeq, rows |-> <<>>]>>
     /\ Len(polls') < Len(polls) => ~pollInFlight'
    ]_vars

\* A tick was dropped while the one cycle in flight held fetched rows.
C16_Witness ==
  /\ last = [op |-> "tick", dropped |-> TRUE]
  /\ Len(polls) = 1
  /\ polls[1].pc = "answered"
  /\ polls[1].rows # <<>>
  /\ pollInFlight

\* C17: lastSeq never decreases, every fetched row has seq greater than
\* lastSeq at fetch time, rows are handed to applyChange in ascending seq
\* order and none more than once.
C17_TailerForward ==
  [][/\ lastSeq' >= lastSeq
     /\ \A i \in 1..Len(polls') :
          \A k \in 1..Len(polls'[i].rows) :
            /\ polls'[i].rows[k].seq > polls'[i].since
            /\ polls'[i].rows[k].seq > lastSeq'
            /\ k > 1 => polls'[i].rows[k].seq > polls'[i].rows[k - 1].seq
     /\ \A a, b \in 1..Len(handled') : a < b => handled'[a].seq < handled'[b].seq
    ]_vars

\* Every row of the change log has been handed to applyChange, over two
\* batches of one cycle.
C17_Witness ==
  /\ Len(handled) = MaxSeq
  /\ lastSeq = MaxSeq
  /\ last.op = "pollChanges"
  /\ last.since > 0
  /\ ~last.error

\* C18: when a store fetch fails or the handling of a fetched row throws,
\* the cycle aborts, the flag is cleared and lastSeq has not been advanced
\* past the failing row, so that the row is fetched again by the next cycle.
C18_ErrorsRetried ==
  (last.op = "pollChanges" /\ last.error) =>
    /\ ~pollInFlight
    /\ polls = <<>>
    /\ IF last.failedSeq = 0
       THEN lastSeq = last.since
       ELSE /\ lastSeq < last.failedSeq
            /\ \E k \in 1..Len(fetchChanges(changes, lastSeq, pollBatch)) :
                 fetchChanges(changes, lastSeq, pollBatch)[k].seq = last.failedSeq

\* The index after loadSnapshot and every whole applyChange since.
RECURSIVE applyAll(_, _, _)
applyAll(idx, rows, k) ==
  IF k > Len(rows) THEN idx
  ELSE applyAll(applyChange(idx, [id |-> rows[k].id, rev |-> rows[k].rev],
                            normalizeEntryRow(rows[k].entry)),
                rows, k + 1)

\* The data-model invariants of the index.
DataModelInvariants ==
  /\ AllocatedFromOne(index)
  /\ RegistryConsistent(index)
  /\ \A id \in DOMAIN index.idToDoc : StoredRev(index, id) = applied[id]
  /\ C6_TokenCoverageKeyExists
  /\ C7_VisibilityPartition
  /\ C9_SortTotality
  /\ C10_PostingCleanup

\* C19: every search, read or batchGet served while the tailer runs sees an
\* index in which the data-model invariants hold and which is the index
\* after loadSnapshot and a whole number of applyChange calls, and returns
\* what the call returns on that index.
C19_ReadersSeeWholeSnapshots ==
  last.op \in ReadOps =>
    /\ DataModelInvariants
    /\ \E whole \in {applyAll(buildFromSnapshot(index, loaded), handled, 1)} :
         /\ index = whole
         /\ last.op = "search" =>
              last.result = search(whole, last.filterAst, last.options, last.requester)
         /\ last.op = "read" => last.result = read(whole, last.id, last.requester)
         /\ last.op = "batchGet" => last.result = batchGet(whole, last.ids, last.requester)

\* A search is served between two batches of a cycle that has replaced an
\* entry by one of another visibility.
C19_Witness ==
  /\ last.op = "search"
  /\ Len(polls) = 1
  /\ polls[1].pc = "querying"
  /\ Len(handled) = 2
  /\ handled[1].id = handled[2].id
  /\ readVisibility(handled[1].entry.attrs) # readVisibility(handled[2].entry.attrs)
  /\ Len(last.result.items) = 1

\* C20: after any sequence of getOrParse calls the cache holds at most
\* maxEntries entries, and maxEntries is at least 1 for every constructor
\* argument, 256 for the non-finite ones.
C20_CacheBounded ==
  /\ Len(filterCache.cache) <= filterCache.maxEntries
  /\ filterCache.maxEntries >= 1
  /\ \A arg \in CacheSizeArgs :
       /\ FilterAstCache(arg).maxEntries >= 1
       /\ ~isFinite(arg) => FilterAstCache(arg).maxEntries = DEFAULT_FILTER_CACHE_SIZE

\* A cache of capacity 2 was full when a miss parsed and stored a third
\* filter: the oldest entry went and the cache is full again.
C20_Witness ==
  /\ filterCache.maxEntries = 2
  /\ last.op = "getOrParse"
  /\ last.ok
  /\ ~last.hit
  /\ last.sizeBefore = 2
  /\ Len(filterCache.cache) = 2
  /\ cacheHas(filterCache.cache, last.filter)

\* The calls among the first n that returned an object for filter.
Accesses(filter, n) == {i \in 1..n : calls[i].filter = filter /\ calls[i].ok}

\* The position in the history of the last access (insert or hit) to filter
\* among the first n calls.
LastAccess(filter, n) == SetMax(Accesses(filter, n))

\* The calls before call i that parsed calls[i].filter.
ParsesBefore(i) ==
  {j \in 1..(i - 1) : calls[j].filter = calls[i].filter /\ calls[j].ok /\ ~calls[j].hit}

Without(keys, filter) == SelectSeq(keys, LAMBDA k : k # filter)

\* What every call does to the recency order: a hit moves its entry to the
\* end; a miss appends its entry and, when the cache was full, drops exactly
\* the entry whose last access is oldest.
RecencyRule(i) ==
  /\ calls[i].hit =>
       /\ \E k \in 1..Len(calls[i].before) : calls[i].before[k] = calls[i].filter
       /\ calls[i].after = Without(calls[i].before, calls[i].filter) \o <<calls[i].filter>>
  /\ calls[i].ok /\ ~calls[i].hit /\ Len(calls[i].before) < filterCache.maxEntries =>
       calls[i].after = calls[i].before \o <<calls[i].filter>>
  /\ calls[i].ok /\ ~calls[i].hit /\ Len(calls[i].before) >= filterCache.maxEntries =>
       /\ Len(calls[i].after) = Len(calls[i].before)
       /\ \E k \in 1..Len(calls[i].before) :
            /\ calls[i].after = Without(calls[i].before, calls[i].before[k]) \o <<calls[i].filter>>
            /\ \A m \in 1..Len(calls[i].before) :
                 LastAccess(calls[i].before[k], i - 1) <= LastAccess(calls[i].before[m], i - 1)

\* C21 as stated: the cache is an LRU keyed by the exact string, and a hit
\* returns the object that the first parse of the string returned.
C21_LruFirstParse ==
  \A i \in 1..Len(calls) :
    /\ RecencyRule(i)
    /\ calls[i].hit => calls[i].ref = calls[SetMin(ParsesBefore(i))].ref

\* C21: the cache is an LRU keyed by the exact string: a hit returns the
\* object returned by the parse that made the entry now cached (the latest
\* parse of the string, which after an eviction is not the first) and makes
\* the entry most recently used; a miss on a full cache evicts exactly the
\* entry whose last access is oldest, never the one just inserted.
C21_Lru ==
  \A i \in 1..Len(calls) :
    /\ RecencyRule(i)
    /\ calls[i].hit =>
         /\ ParsesBefore(i) # {}
         /\ calls[i].ref = calls[SetMax(ParsesBefore(i))].ref

\* A hit on a string that was parsed, evicted by a miss on a full cache and
\* parsed again.
C21_Witness ==
  \E i \in 1..Len(calls) :
    /\ calls[i].hit
    /\ Cardinality(ParsesBefore(i)) = 2
    /\ \E j \in 1..(i - 1) :
         /\ calls[j].ok /\ ~calls[j].hit
         /\ Len(calls[j].before) = filterCache.maxEntries
         /\ \E k \in 1..Len(calls[j].before) : calls[j].before[k] = calls[i].filter

\* C22: evaluating a filter never mutates or disposes a stored posting or
\* the universe, neither in evaluateFilterAst nor in the search call around
\* it, and the bitmap evaluateFilterAst hands over is never a stored one.
C22_BorrowedNeverMutated ==
  last.op = "search" /\ last.filterAst # NULL =>
    /\ \A candidates \in {evaluateFilterAst(last.filterAst, index)} :
         /\ candidates.touched = {}
         /\ candidates.ref = Fresh
    /\ searchTouched(index, last.filterAst, last.requester) = {}

\* A search whose filter intersects two stored postings and finds docs.
C22_Witness ==
  /\ last.op = "search"
  /\ last.filterAst = Filters[3]
  /\ \A i \in 1..2 :
       getPosting(index, LeafToken(last.filterAst.children[i]).token).found
  /\ last.result.items # <<>>

\* The posting of a leaf's token, empty when there is none.
LeafPosting(ast, idx) == getPosting(idx, LeafToken(ast).token).bitmap

\* The reference set algebra over the postings; an and without children is
\* the empty set, as it is in the tests' evaluateReference.
RECURSIVE Reference(_, _)
Reference(ast, idx) ==
  IF ast.kind \in {"eq", "present"} THEN LeafPosting(ast, idx)
  ELSE IF ast.kind = "and"
  THEN IF ast.children = <<>> THEN {}
       ELSE {d \in Reference(ast.children[1], idx) :
               \A i \in 1..Len(ast.children) : d \in Reference(ast.children[i], idx)}
  ELSE IF ast.kind = "or"
  THEN UNION {Reference(ast.children[i], idx) : i \in 1..Len(ast.children)}
  ELSE idx.universe \ Reference(ast.child, idx)

\* C23: evaluateFilterAst returns exactly the set of the reference algebra,
\* whatever the order the and children are taken in and wherever the loop
\* stops; an and with a child whose posting is absent gives the empty set.
C23_ReferenceSemantics ==
  last.op = "evaluateFilterAst" /\ last.ast \in EvalAsts =>
    /\ ~last.result.err
    /\ last.result.bitmap = Reference(last.ast, index)
    /\ (/\ last.ast.kind = "and"
        /\ \E i \in 1..Len(last.ast.children) :
             /\ last.ast.children[i].kind \in {"eq", "present"}
             /\ ~getPosting(index, LeafToken(last.ast.children[i]).token).found)
         => last.result.bitmap = {}

\* An and of three children was evaluated in another order than written (the
\* first child written has the largest posting) and found docs.
C23_Witness ==
  /\ last.op = "evaluateFilterAst"
  /\ last.ast = And(<<Eq("tag", "t1"), Eq("tag", "t2"), Present("endpoint")>>)
  /\ estimateCardinality(last.ast.children[1], index).n >
       estimateCardinality(last.ast.children[3], index).n
  /\ last.result.bitmap # {}

\* An and with an absent posting stopped at its first child.
C23_WitnessAbsent ==
  /\ last.op = "evaluateFilterAst"
  /\ last.ast = And(<<Eq("type", "skill"), Eq("tag", "__never__")>>)
  /\ Reference(Eq("type", "skill"), index) # {}
  /\ last.result.bitmap = {}

\* C24: (rev=abc) parses, and both compiling it to SQL and evaluating it on
\* the core index report invalid_filter.
C24_RevIsInteger ==
  last.op = "evaluateFilterAst" /\ last.ast = Eq("rev", "abc") =>
    /\ parseFilter("(rev=abc)") = [ok |-> TRUE, node |-> last.ast]
    /\ compileToSql(last.ast).err
    /\ last.result.err

\* What does hold: the compiler rejects it and the evaluator returns the
\* empty set.
C24_RevRejectedBySqlOnly ==
  last.op = "evaluateFilterAst" /\ last.ast = Eq("rev", "abc") =>
    /\ parseFilter("(rev=abc)") = [ok |-> TRUE, node |-> last.ast]
    /\ compileToSql(last.ast) = invalidFilter("rev must be an integer.", <<>>)
    /\ ~last.result.err
    /\ last.result.bitmap = {}

C24_Witness ==
  /\ last.op = "evaluateFilterAst"
  /\ last.ast = Eq("rev", "abc")
  /\ index.universe # {}

\* A complete AST: every node has its kind's fields and nothing else, a key
\* is not empty and an and/or has a child.
RECURSIVE Complete(_)
Complete(node) ==
  IF node.kind = "eq"
  THEN DOMAIN node = {"kind", "key", "value"} /\ Len(node.key) > 0
  ELSE IF node.kind = "present"
  THEN DOMAIN node = {"kind", "key"} /\ Len(node.key) > 0
  ELSE IF node.kind \in {"and", "or"}
  THEN /\ DOMAIN node = {"kind", "children"}
       /\ Len(node.children) > 0
       /\ \A i \in 1..Len(node.children) : Complete(node.children[i])
  ELSE /\ node.kind = "not"
       /\ DOMAIN node = {"kind", "child"}
       /\ Complete(node.child)

\* parseFilter gave a complete AST and nothing else, or an error with a
\* position in the input and no AST.
AllOrNothing(input, returned, parsed) ==
  /\ returned = parsed.ok
  /\ parsed.ok =>
       /\ DOMAIN parsed = {"ok", "node"}
       /\ Complete(parsed.node)
  /\ ~parsed.ok =>
       /\ DOMAIN parsed = {"ok", "message", "position"}
       /\ parsed.position \in 0..Len(input)
  /\ input \in RejectedStrings => ~parsed.ok

\* C25: parseFilter returns a complete AST or fails with a position and no
\* AST; the rejected strings fail; and a getOrParse call whose string fails
\* to parse leaves the cache, contents and order, as it was.
C25_ParseAllOrNothing ==
  [][calls' # calls =>
       /\ AllOrNothing(calls'[Len(calls')].filter, calls'[Len(calls')].ok,
                       parseFilter(calls'[Len(calls')].filter))
       /\ ~calls'[Len(calls')].ok => filterCache' = filterCache]_vars

\* A string was rejected while the cache held two entries.
C25_Witness ==
  /\ Len(calls) > 0
  /\ ~calls[Len(calls)].ok
  /\ calls[Len(calls)].filter = "(tag=a(b)"
  /\ Len(filterCache.cache) = 2
  /\ cacheKeys(filterCache.cache) = calls[Len(calls)].before

\* The rules of key resolution, in order.
ExpectedKey(key) ==
  IF Len(key) >= 6 /\ SubSeq(key, 1, 6) = "attrs."
  THEN IF Len(key) = 6 THEN [scope |-> "error", key |-> ""]
       ELSE [scope |-> "attr", key |-> SubSeq(key, 7, Len(key))]
  ELSE IF key \in {"id", "type", "name", "namespace", "version", "rev"}
  THEN [scope |-> "top", key |-> key]
  ELSE [scope |-> "attr", key |-> key]

\* The docs whose entry has the value (eq) or the key (present) on (scope, key).
DocsSelecting(idx, ast, scope, key) ==
  {d \in DOMAIN idx.docs :
     IF ast.kind = "eq" THEN ast.value \in ValuesOf(idx.docs[d].entry, scope, key)
     ELSE KeyExists(idx.docs[d].entry, scope, key)}

\* C26: a key resolves by the rules in order (attrs. prefix first, then the
\* six top-level names, then attr unchanged), an empty remainder is rejected
\* on both paths, and a filter selects the docs that have the value or key
\* in the resolved scope; so (tag=x) and (attrs.tag=x) select the same docs.
C26_KeyResolution ==
  last.op = "evaluateFilterAst" /\ last.ast.kind \in {"eq", "present"} =>
    \A expected \in {ExpectedKey(last.ast.key)} :
      /\ resolveCoreKey(last.ast.key) = expected
      /\ last.result.err = (expected.scope = "error")
      /\ expected.scope = "error" => compileToSql(last.ast).err
      /\ expected.scope # "error" =>
           last.result.bitmap = DocsSelecting(index, last.ast, expected.scope, expected.key)
      /\ last.ast = Eq("attrs.tag", "t1") =>
           last.result.bitmap = evaluateFilterAst(Eq("tag", "t1"), index).bitmap

\* (attrs.id=e1) finds nothing on an index that holds the entry e1.
C26_Witness ==
  /\ last.op = "evaluateFilterAst"
  /\ last.ast = Eq("attrs.id", "e1")
  /\ "e1" \in DOMAIN index.idToDoc
  /\ evaluateFilterAst(Eq("id", "e1"), index).bitmap # {}
  /\ last.result.bitmap = {}

\* (attrs.tag=t1) finds docs.
C26_WitnessShorthand ==
  /\ last.op = "evaluateFilterAst"
  /\ last.ast = Eq("attrs.tag", "t1")
  /\ last.result.bitmap # {}

\* What is malformed in a raw query, stated on the query alone.
BadLimit(raw) ==
  raw.limit # Undefined /\ raw.limit \notin {Num(2 * n) : n \in 1..200}

BadEnum(raw) ==
  \/ raw.sort \notin {NullStr, "updated_at_desc", "none"}
  \/ raw.view \notin {NullStr, "card", "full", "ids"}

Unparsable(raw) == raw.filter \in {"(|)", "(type=skill)x"}

Undecodable(cursor) ==
  \A t \in Times, id \in Ids : cursor # encodeCursor([updated_at |-> t, id |-> id])

BadCursor(raw) ==
  raw.cursor # NullStr /\ (raw.sort = "none" \/ Undecodable(raw.cursor))

Malformed(raw) == BadLimit(raw) \/ BadEnum(raw) \/ Unparsable(raw) \/ BadCursor(raw)

ErrorResponse(response, code) ==
  response.status = 400 /\ response.body.error.code = code

\* The filter of a raw query that is not malformed, as an AST.
AstOf(raw) ==
  IF raw.filter \in {NullStr, " "} THEN NULL
  ELSE IF raw.filter = "(type=skill)" THEN Eq("type", "skill")
  ELSE IF raw.filter = "(tag=t2)" THEN Eq("tag", "t2")
  ELSE Eq("tag", "__never__")

EmptyResponse(response) ==
  /\ response.status = 200
  /\ response.body.next_cursor = NullStr
  /\ IF "ids" \in DOMAIN response.body THEN response.body.ids = <<>>
     ELSE response.body.items = <<>>

\* What the response to a raw query must be.
Answers(raw, requester, response, idx) ==
  /\ BadLimit(raw) \/ BadEnum(raw) => ErrorResponse(response, "invalid_request")
  /\ ~BadLimit(raw) /\ ~BadEnum(raw) /\ Unparsable(raw) =>
       ErrorResponse(response, "invalid_filter")
  /\ ~BadLimit(raw) /\ ~BadEnum(raw) /\ ~Unparsable(raw) /\ BadCursor(raw) =>
       ErrorResponse(response, "invalid_request")
  /\ ~Malformed(raw) /\ raw.filter # "(attrs.=x)" =>
       /\ response.status = 200
       /\ raw.cursor = NullStr /\ raw.q = NullStr
            /\ NaiveScan(idx, AstOf(raw), requester) = <<>> => EmptyResponse(response)
       /\ raw.filter = "(tag=__never__)" => EmptyResponse(response)

\* C27: on GET /core/search an out-of-range limit, a cursor with sort=none
\* and an undecodable cursor give 400 invalid_request, an unparsable filter
\* gives 400 invalid_filter, a filter without posting or without visible
\* candidates gives 200 with no items and no cursor, and an error response
\* leaves the index and last_seq as they were.
C27_MalformedIsErrorAbsenceIsNot ==
  [][last'.op = "handleSearch" /\ last.op # "handleSearch" =>
       /\ Answers(last'.raw, last'.requester, last'.response, index)
       /\ last'.response.status # 200 => index' = index /\ lastSeq' = lastSeq]_vars

\* A request with a good filter and an undecodable cursor was refused on an
\* index that holds entries; the filter had been parsed and cached.
C27_Witness ==
  /\ last.op = "handleSearch"
  /\ last.raw.filter = "(type=skill)"
  /\ last.raw.cursor = "bm90LWpzb24"
  /\ ErrorResponse(last.response, "invalid_request")
  /\ index.universe # {}
  /\ cacheHas(filterCache.cache, "(type=skill)")

\* A filter whose docs the requester may not see answered 200 and empty.
C27_WitnessEmpty ==
  /\ last.op = "handleSearch"
  /\ last.raw.filter = "(tag=t2)"
  /\ evaluateFilterAst(Eq("tag", "t2"), index).bitmap # {}
  /\ EmptyResponse(last.response)

(***************************************************************************)
(* The change feed.                                                        *)
(***************************************************************************)
\* A change row the requester may see: its revision exists and its attrs
\* admit the requester.
FeedVisible(row, requester) == row.entry # NULL /\ canSee(row.entry, requester)

\* The seqs of the rows of the log that have a revision, after since.
JoinedSeqs(since) ==
  {changes[i].seq : i \in {j \in 1..Len(changes) :
                              changes[j].entry # NULL /\ changes[j].seq > since}}

FeedAnswered == last.op = "handleChanges" /\ last.response.status = 200

FeedContract(since, limit, requester, events, next_since) ==
  /\ \A i \in 1..(Len(events) - 1) : events[i].seq < events[i + 1].seq
  /\ \A i \in 1..Len(events) :
       /\ events[i].seq > since
       /\ events[i].seq <= next_since
       /\ \E j \in 1..Len(changes) :
            /\ FeedVisible(changes[j], requester)
            /\ events[i] = [seq |-> changes[j].seq, id |-> changes[j].id, rev |-> changes[j].rev,
                            change_type |-> changes[j].change_type,
                            changed_at |-> changes[j].changed_at]
  /\ Len(events) <= limit
  /\ next_since >= since
  /\ next_since = since \/ next_since \in JoinedSeqs(since)
  /\ JoinedSeqs(since) # {} => next_since > since
  /\ \A j \in 1..Len(changes) :
       (/\ FeedVisible(changes[j], requester)
        /\ changes[j].seq > since
        /\ changes[j].seq <= next_since)
         => \E i \in 1..Len(events) : events[i].seq = changes[j].seq

C28_WitnessHidden ==
  /\ FeedAnswered
  /\ last.response.body.events = <<>>
  /\ last.response.body.next_since > last.since

(***************************************************************************)
(* The store's tables.                                                     *)
(***************************************************************************)
RevsOf(id) == {row.rev : row \in {r \in db.entries : r.id = id}}

LatestOf(id) == {row \in db.entries_latest : row.id = id}

\* C29: after any sequence of committed publish and setStatus requests,
\* entries_latest holds for every id exactly one row, the row of the highest
\* rev that entries holds for the id, and entries holds every revision from
\* 1 up to that rev.
C29_LatestIsNewest ==
  \A id \in Ids :
    RevsOf(id) # {} =>
      /\ Cardinality(LatestOf(id)) = 1
      /\ \A row \in LatestOf(id) : row.rev = SetMax(RevsOf(id)) /\ row \in db.entries
      /\ RevsOf(id) = 1..SetMax(RevsOf(id))

\* C30: every revision in entries has exactly one change row for its (id,
\* rev), committed with it, so that no committed revision is without a
\* change row for the tailer.
C30_EveryRevisionHasChange ==
  \A row \in db.entries :
    Cardinality({change \in db.changes : change.id = row.id /\ change.rev = row.rev}) = 1

(***************************************************************************)
(* Requester parsing.                                                      *)
(***************************************************************************)
\* The names of a comma-separated list: every stretch between two commas
\* (or an end of the text) without its outer blanks, the empty ones
\* left out.
Stretches(text) ==
  {<<from, to>> \in (1..(Len(text) + 1)) \X (0..Len(text)) :
     /\ to >= from - 1
     /\ from = 1 \/ SubSeq(text, from - 1, from - 1) = ","
     /\ to = Len(text) \/ SubSeq(text, to + 1, to + 1) = ","
     /\ \A at \in from..to : SubSeq(text, at, at) # ","}

RECURSIVE Bare(_)
Bare(text) ==
  IF Len(text) > 0 /\ SubSeq(text, 1, 1) = " " THEN Bare(SubSeq(text, 2, Len(text)))
  ELSE IF Len(text) > 0 /\ SubSeq(text, Len(text), Len(text)) = " "
  THEN Bare(SubSeq(text, 1, Len(text) - 1))
  ELSE text

GroupNames(header) ==
  IF header = NullStr THEN {}
  ELSE {Bare(SubSeq(header, stretch[1], stretch[2])) : stretch \in Stretches(header)} \ {""}

Sent(header) == header # NullStr

SentValue(header) == header # NullStr /\ header # ""

Parsed31 == last.op = "parseRequester"

RequesterRule(env, headers, requester, authenticated) ==
  /\ env # "true" => requester.isAuthenticated = FALSE /\ requester.groups = {}
  /\ env = "true" =>
       /\ requester.isAuthenticated = authenticated
       /\ requester.isAuthenticated => requester.groups = GroupNames(headers.groups)
       /\ ~requester.isAuthenticated => requester.groups = {}

\* C31 as stated: with trusted headers enabled the requester is
\* authenticated iff an authorization or subject header is sent.
C31_AuthenticatedIffHeaderSent ==
  Parsed31 =>
    RequesterRule(last.env, last.headers, last.requester,
                  Sent(last.headers.authorization) \/ Sent(last.headers.sub))

\* C31: when trusted-header mode is not enabled the requester is anonymous
\* with no groups whatever headers are sent; when enabled, the requester is
\* authenticated iff an authorization or subject header is sent with a
\* value that is not empty, its groups are the names of the comma-separated
\* groups header, trimmed, without duplicates and without empty names, and
\* an unauthenticated requester carries no groups.
C31_RequesterParsing ==
  Parsed31 =>
    RequesterRule(last.env, last.headers, last.requester,
                  SentValue(last.headers.authorization) \/ SentValue(last.headers.sub))

\* Authenticated by the subject header alone, with a groups header whose
\* names repeat and carry blanks.
C31_Witness ==
  /\ Parsed31
  /\ last.env = "true"
  /\ last.headers.authorization = NullStr
  /\ last.headers.sub = "user-1"
  /\ last.headers.groups = " g1 , g1"
  /\ last.requester.isAuthenticated
  /\ last.requester.groups = {"g1"}
  /\ last.requester.subject = "user-1"

\* Headers sent while the mode is off.
C31_WitnessDisabled ==
  /\ Parsed31
  /\ last.env = "false"
  /\ last.headers.authorization = "Bearer token"
  /\ last.headers.groups = "g1,g2"
  /\ ~last.requester.isAuthenticated
  /\ last.requester.groups = {}
  /\ last.requester.subject = NullStr

\* The cursors a client can hold: none, or the position of a live entry.
CursorsOn(idx) ==
  {NULL} \cup {[updated_at |-> e.updated_at, id |-> e.id] : e \in LiveEntries(idx)}

\* The candidate sets a filter can hand over: any set of assigned doc ids.
CandidateSets(idx) == SUBSET (1..(idx.nextDocId - 1))

\* C32: on every index state between two calls, for every candidate set,
\* cursor, q and limit, collectSelectiveResults (bounded buffer ordered by
\* rank) and collectScanResults (walk of updatedOrder) return the same items
\* in the same order and the same next_cursor, so the choice search makes
\* between them never changes a result.
C32_StrategiesEquivalent ==
  \A candidates \in CandidateSets(index), cursor \in CursorsOn(index),
     q \in {NullStr, "pdf"}, limit \in 1..(MaxLimit + 1) :
    collectSelectiveResults(index, candidates, [cursor |-> cursor], q, limit)
      = collectScanResults(index, candidates, [cursor |-> cursor], q, limit)

\* The later-assigned doc sorts first, so the buffer reorders what the
\* candidate iteration yields, and with limit 1 it drops the other doc.
C32_Witness ==
  /\ index.updatedOrder = <<2, 1>>
  /\ collectSelectiveResults(index, {1, 2}, [cursor |-> NULL], NullStr, 1).items
       = <<Hit(index.docs[2])>>
  /\ collectScanResults(index, {1, 2}, [cursor |-> NULL], NullStr, 1).next_cursor
       = CursorOf(index.docs[2])
  /\ Len(collectSelectiveResults(index, {1, 2}, [cursor |-> NULL], NullStr, 2).items) = 2

\* The index holds, for the id of every joined change row up to seq, a rev
\* at least as high as the row's.
CoveredUpTo(idx, feed, seq) ==
  \A i \in 1..Len(feed) :
    (feed[i].seq <= seq /\ feed[i].entry # NULL) =>
      /\ StoredEntry(idx, feed[i].id) # NULL
      /\ StoredEntry(idx, feed[i].id).rev >= feed[i].rev

\* C33: when loadSnapshot completes and has set lastSeq, every change row
\* with seq <= lastSeq that has a joined entry is covered by the index: the
\* index holds for that id a rev at least as high as the row's, also when
\* the writer commits between the read of entries_latest and the read of
\* max(seq).
C33_StartupLeavesNoGap ==
  [][(mainPc = "loadSeq" /\ mainPc' = "serving") => CoveredUpTo(index', changes', lastSeq')]_vars

(***************************************************************************)
(* The daemon over the writer's store: loadSnapshot and pollChanges read   *)
(* the tables the publish transactions of the connections commit to.  A    *)
(* change row's seq is drawn when the row is inserted and the row is seen  *)
(* by the daemon's queries once its transaction has committed.             *)
(***************************************************************************)
\* FROM changes c LEFT JOIN entries e ON e.id = c.id AND e.rev = c.rev
\* ORDER BY c.seq ASC, over the committed rows.
joinedEntry(c) ==
  IF \E e \in db.entries : e.id = c.id /\ e.rev = c.rev
  THEN CHOOSE e \in db.entries : e.id = c.id /\ e.rev = c.rev
  ELSE NULL

storeFeed ==
  LET seqs == {c.seq : c \in db.changes}
      nth(k) == CHOOSE c \in db.changes : Cardinality({s \in seqs : s < c.seq}) = k - 1
  IN [k \in 1..Cardinality(seqs) |->
        [seq |-> nth(k).seq, id |-> nth(k).id, rev |-> nth(k).rev,
         change_type |-> nth(k).change_type, changed_at |-> nth(k).changed_at,
         entry |-> joinedEntry(nth(k))]]

\* SELECT COALESCE(MAX(seq), 0) AS max_seq FROM changes
storeMaxSeq == SetMax({c.seq : c \in db.changes})

\* The requests the writer serves in this scenario: at most MaxWrites
\* publish requests of one payload.
MaxWrites == 2

ConvergePayloads == {p \in TailPayloads : p.type = "skill"}

started == Cardinality(db.entries) + Cardinality({conn \in Conns : Open(conn)})

PublishStep(conn) ==
  \/ /\ started < MaxWrites
     /\ db.changes_seq < MaxWrites
     /\ \E id \in Ids, p \in ConvergePayloads : BeginPublish(conn, id, p)
  \/ SelectNextRev(conn)
  \/ InsertEntry(conn)
  \/ UpsertLatest(conn)
  \/ InsertChange(conn)
  \/ Commit(conn)
  \/ Abort(conn)

WriterStep == \E conn \in Conns : PublishStep(conn)

StoreLoadRows == LoadSnapshotRowsOf(db.entries_latest)

StoreLoadSeq == LoadSnapshotSeqAt(storeMaxSeq)

StoreAnswer == DbAnswerFrom(storeFeed)

NextConverge ==
  \/ WriterStep
  \/ StoreLoadRows \/ StoreLoadSeq
  \/ Tick \/ StoreAnswer \/ DbFail \/ Deliver

\* loadSnapshot's first query has not been answered.
LoadReady == mainPc = "loadSnapshot" /\ Idle

\* A cycle holds the rows of its query and waits to resume.
DeliverReady == Idle /\ \E i \in 1..Len(polls) : polls[i].pc = "answered"

\* The event loop runs every continuation that is ready and the timer keeps
\* firing (weak fairness); a query that is retried for ever succeeds at some
\* point (strong fairness).  Nothing is assumed of the writer.  Weak
\* fairness of an action A is []<>~ENABLED <<A>>_vars \/ []<><<A>>_vars; for
\* StoreLoadRows and Deliver it is written out, with the condition under
\* which the action is enabled.
FairConverge ==
  /\ WF_vars(StoreLoadSeq)
  /\ WF_vars(Tick)
  /\ SF_vars(StoreAnswer)
  /\ ([]<>~LoadReady) \/ ([]<><<StoreLoadRows>>_vars)
  /\ ([]<>~DeliverReady) \/ ([]<><<Deliver>>_vars)

SpecConverge == Init /\ [][NextConverge]_vars /\ FairConverge

\* A change row of revision (id, rev) is committed and its join finds the
\* revision.
CommittedJoined(id, rev) ==
  \E c \in db.changes : c.id = id /\ c.rev = rev /\ joinedEntry(c) # NULL

\* The index holds rev of id, or a higher one.
AppliedOrSuperseded(id, rev) ==
  /\ StoredEntry(index, id) # NULL
  /\ StoredEntry(index, id).rev >= rev

\* No request is being served by the writer.
WriterQuiet == \A conn \in Conns : ~Open(conn)

\* The index holds for every id the rev entries_latest holds.
IndexHoldsLatest ==
  \A row \in db.entries_latest :
    /\ StoredEntry(index, row.id) # NULL
    /\ StoredEntry(index, row.id).rev = row.rev

\* C34: with the timer firing, continuations running and queries succeeding
\* in the end, every committed change row with a joined entry is eventually
\* applied or superseded in the index, and once the writer has stopped the
\* index eventually holds the latest rev of every id, whatever the order in
\* which the writer's transactions commit.
C34_IndexConverges ==
  /\ \A id \in Ids, rev \in 1..MaxWrites :
       CommittedJoined(id, rev) ~> AppliedOrSuperseded(id, rev)
  /\ (<>[]WriterQuiet) => (<>[]IndexHoldsLatest)

\* The index that holds the docs requester may see and nothing else.
Stripped(idx, requester) ==
  buildFromSnapshot(idx, Listed({e \in LiveEntries(idx) : canSee(e, requester)}))

\* Filters with NOT at the top and below AND and OR, and one whose
\* evaluation throws.
NoninterferenceFilters ==
  {NULL,
   [kind |-> "not", child |-> [kind |-> "eq", key |-> "tag", value |-> "t1"]],
   [kind |-> "and", children |-> << [kind |-> "not", child |-> [kind |-> "present", key |-> "endpoint"]],
                                    [kind |-> "eq", key |-> "type", value |-> "skill"] >>],
   [kind |-> "or", children |-> << [kind |-> "not", child |-> [kind |-> "eq", key |-> "type", value |-> "skill"]],
                                   [kind |-> "eq", key |-> "tag", value |-> "t2"] >>],
   [kind |-> "and", children |-> << [kind |-> "eq", key |-> "tag", value |-> "t2"],
                                    [kind |-> "eq", key |-> "attrs.", value |-> "x"] >>]}

\* limit, q and cursor of the searches compared.
NoninterferenceOptions(idx) ==
  {[limit |-> limit, cursor |-> NULL, q |-> q] : limit \in 1..MaxLimit, q \in {NullStr, " PDF "}}
    \cup {[limit |-> 1, cursor |-> cursor, q |-> NullStr] : cursor \in CursorsOn(idx)}

\* The result of search had it taken collectScanResults where it takes
\* collectSelectiveResults.
searchByScan(idx, filterAst, options, requester) ==
  LET evaluated == evaluateFilterAst(filterAst, idx)
      q == IF options.q = NullStr THEN NullStr ELSE searchQ(toLowerCase(trim(options.q)))
  IN IF getAllowedDocs(idx, requester) = {} \/ evaluated.err
        \/ evaluated.bitmap \cap getAllowedDocs(idx, requester) = {}
     THEN search(idx, filterAst, options, requester)
     ELSE Found(collectScanResults(idx, evaluated.bitmap \cap getAllowedDocs(idx, requester),
                                   options, q, ClampedLimit(options)))

\* C35: for every requester, filter (NOT included), q, cursor and limit,
\* search on an index returns the items and next_cursor it returns on the
\* index that holds only the docs the requester may see, whichever of the
\* two retrieval strategies is taken; so two indexes that differ only in
\* docs the requester may not see give the same answer.
C35_SearchNoninterference ==
  \A requester \in Requesters :
    \E bare \in {Stripped(index, requester)} :
      \A filterAst \in NoninterferenceFilters, options \in NoninterferenceOptions(index) :
        \E expected \in {search(bare, filterAst, options, requester)} :
          /\ search(index, filterAst, options, requester) = expected
          /\ filterAst # NULL =>
               searchByScan(index, filterAst, options, requester) = expected

\* Two docs of which the anonymous requester may see one; a NOT filter
\* matches both, and the search returns the visible one alone.
C35_Witness ==
  /\ Cardinality(LiveEntries(index)) = 2
  /\ Cardinality(getAllowedDocs(index, Anonymous)) = 1
  /\ \E filterAst \in {[kind |-> "not", child |-> [kind |-> "present", key |-> "endpoint"]]} :
       /\ Cardinality(evaluateFilterAst(filterAst, index).bitmap) = 2
       /\ Len(search(index, filterAst, [limit |-> 2, cursor |-> NULL, q |-> NullStr],
                     Anonymous).items) = 1

(***************************************************************************)
(* The bitmaps of a search call: how many new RoaringBitmap32() and        *)
(* clone() calls the call makes and how many of those bitmaps it disposes, *)
(* up to its return or to the throw that ends it.                          *)
(***************************************************************************)
Ledger(made, freed) == [allocated |-> made, disposed |-> freed]

plus(a, b) == Ledger(a.allocated + b.allocated, a.disposed + b.disposed)

\* if (childResult.owned) childResult.bitmap.dispose()
disposedIfOwned(childResult) == Ledger(0, IF childResult.owned THEN 1 ELSE 0)

RECURSIVE evalNodeLedger(_, _)
RECURSIVE andLedger(_, _, _, _)
RECURSIVE orLedger(_, _)

andLedgerNext(children, next, idx) ==
  IF next.bitmap = {} THEN Ledger(0, 0) ELSE andLedger(children, FALSE, next, idx)

andLedgerChild(children, first, accumulator, childResult, child, idx) ==
  IF childResult.err THEN child
  ELSE plus(plus(child,
                 IF first THEN Ledger(IF childResult.owned THEN 0 ELSE 1, 0)
                 ELSE disposedIfOwned(childResult)),
            andLedgerNext(children, andStep(first, accumulator, childResult), idx))

\* The 'and' loop: the first child is cloned unless owned, a later one is
\* disposed if owned; a child that throws ends the loop.
andLedger(children, first, accumulator, idx) ==
  IF children = <<>> THEN Ledger(0, 0)
  ELSE andLedgerChild(Tail(children), first, accumulator, evalNode(Head(children), idx),
                      evalNodeLedger(Head(children), idx), idx)

orLedgerChild(children, childResult, child, idx) ==
  IF childResult.err THEN child
  ELSE plus(plus(child, disposedIfOwned(childResult)), orLedger(children, idx))

\* The 'or' loop, entered with the accumulator allocated.
orLedger(children, idx) ==
  IF children = <<>> THEN Ledger(0, 0)
  ELSE orLedgerChild(Tail(children), evalNode(Head(children), idx),
                     evalNodeLedger(Head(children), idx), idx)

\* The 'not' case: the clone of the universe, and the child disposed if
\* owned.
notLedger(childResult, child) ==
  IF childResult.err THEN child
  ELSE plus(child, plus(Ledger(1, 0), disposedIfOwned(childResult)))

sortedLedger(ast, ests, idx) ==
  IF Len(ast.children) > 1 /\ \E i \in 1..Len(ests) : ests[i].err
  THEN Ledger(0, 0)
  ELSE LET order == SortPositions(ests, 1..Len(ests))
       IN andLedger([k \in 1..Len(order) |-> ast.children[order[k]]], TRUE,
                    EvalResult({}, TRUE, Fresh, {}), idx)

\* evalNode: borrowPosting allocates when the posting is missing, the empty
\* 'and' and 'or' allocate their result, 'or' its accumulator, 'not' the
\* clone of the universe.
evalNodeLedger(ast, idx) ==
  IF ast.kind \in {"eq", "present"}
  THEN IF LeafToken(ast).err \/ getPosting(idx, LeafToken(ast).token).found
       THEN Ledger(0, 0) ELSE Ledger(1, 0)
  ELSE IF ast.kind = "and"
  THEN IF Len(ast.children) = 0 THEN Ledger(1, 0)
       ELSE sortedLedger(ast, [i \in 1..Len(ast.children) |->
                                 estimateCardinality(ast.children[i], idx)], idx)
  ELSE IF ast.kind = "or"
  THEN IF Len(ast.children) = 0 THEN Ledger(1, 0)
       ELSE plus(Ledger(1, 0), orLedger(ast.children, idx))
  ELSE notLedger(evalNode(ast.child, idx), evalNodeLedger(ast.child, idx))

\* evaluateFilterAst: a borrowed result is cloned.
evaluateLedger(result, ledger) ==
  IF ~result.err /\ ~result.owned THEN plus(ledger, Ledger(1, 0)) ELSE ledger

\* search from the evaluation on: allowed is allocated; a throw of the
\* evaluation leaves search at once.
searchEvaluatedLedger(allowed, evaluated, ledger) ==
  IF evaluated.err THEN plus(Ledger(1, 0), ledger)
  ELSE IF evaluated.bitmap = {} THEN plus(Ledger(1, 2), ledger)
  ELSE IF evaluated.bitmap \cap allowed = {} THEN plus(Ledger(1, 2), ledger)
  ELSE plus(Ledger(1, 2), ledger)

\* search: getAllowedDocs clones visibilityPublic; every return disposes
\* allowed, and candidates once it exists.
searchLedger(idx, filterAst, requester) ==
  IF getAllowedDocs(idx, requester) = {} THEN Ledger(1, 1)
  ELSE IF filterAst = NULL THEN Ledger(1, 1)
  ELSE searchEvaluatedLedger(getAllowedDocs(idx, requester), evaluateFilterAst(filterAst, idx),
                             evaluateLedger(evalNode(filterAst, idx),
                                            evalNodeLedger(filterAst, idx)))

\* The path a search takes.
searchPath(idx, filterAst, requester) ==
  IF getAllowedDocs(idx, requester) = {} THEN "empty allowed"
  ELSE IF filterAst = NULL THEN "no filter"
  ELSE IF evaluateFilterAst(filterAst, idx).err THEN "throws"
  ELSE IF evaluateFilterAst(filterAst, idx).bitmap = {} THEN "empty candidates"
  ELSE IF evaluateFilterAst(filterAst, idx).bitmap \cap getAllowedDocs(idx, requester) = {}
  THEN "empty intersection"
  ELSE "normal"

\* Filters of every kind, nested, with missing postings, and three whose
\* evaluation throws on the key attrs.
LedgerFilters ==
  {NULL} \cup Range(Filters)
    \cup {[kind |-> "and", children |-> <<>>],
          [kind |-> "or", children |-> <<>>],
          [kind |-> "eq", key |-> "attrs.", value |-> "x"],
          [kind |-> "or", children |-> << [kind |-> "eq", key |-> "tag", value |-> "t9"],
                                          [kind |-> "present", key |-> "attrs."] >>],
          [kind |-> "not", child |->
             [kind |-> "and", children |-> << [kind |-> "eq", key |-> "attrs.", value |-> "x"] >>]]}

\* Every bitmap the call allocated is disposed.
AllDisposed(ledger) == ledger.allocated = ledger.disposed

\* C36: every bitmap allocated during a search call is disposed when the
\* call returns, on every path: empty allowed set, empty candidates, empty
\* intersection, normal result, and when the evaluation of the filter
\* throws.
C36_SearchDisposesEveryBitmap ==
  \A requester \in Requesters, filterAst \in LedgerFilters :
    AllDisposed(searchLedger(index, filterAst, requester))

\* Filters of every kind over postings that overlap, that are disjoint and
\* that do not exist.
EstimateAsts ==
  LET type == [kind |-> "eq", key |-> "type", value |-> "skill"]
      rag == [kind |-> "eq", key |-> "type", value |-> "rag"]
      t1 == [kind |-> "eq", key |-> "tag", value |-> "t1"]
      t9 == [kind |-> "eq", key |-> "tag", value |-> "t9"]
      endpoint == [kind |-> "present", key |-> "endpoint"]
      either == [kind |-> "or", children |-> <<type, t1, endpoint>>]
  IN {type, t1, t9, endpoint, either,
      [kind |-> "and", children |-> <<type, t1>>],
      [kind |-> "and", children |-> <<t1, rag>>],
      [kind |-> "and", children |-> <<either, type>>],
      [kind |-> "and", children |-> <<>>],
      [kind |-> "or", children |-> <<>>],
      [kind |-> "or", children |-> <<rag, t9>>],
      [kind |-> "not", child |-> t1],
      [kind |-> "not", child |-> either],
      [kind |-> "or", children |-> << [kind |-> "not", child |-> t9], type >>]}

estimateOf(ast) == estimateCardinality(ast, index).n

universeSize == Cardinality(index.universe)

\* The estimate of a node follows from the estimates of its children; the
\* sum of an 'or' is cut at the universe size when saturated.
EstimateStep(ast, saturated) ==
  IF ast.kind \in {"eq", "present"}
  THEN estimateOf(ast) = Cardinality(getPosting(index, LeafToken(ast).token).bitmap)
  ELSE IF ast.kind = "and"
  THEN IF ast.children = <<>> THEN estimateOf(ast) = 0
       ELSE estimateOf(ast) = SetMin({estimateOf(ast.children[i]) : i \in 1..Len(ast.children)})
  ELSE IF ast.kind = "or"
  THEN \E sum \in {SumEstimates([i \in 1..Len(ast.children) |->
                                   [n |-> estimateOf(ast.children[i])]])} :
         estimateOf(ast) = IF saturated THEN Min(sum, universeSize) ELSE sum
  ELSE estimateOf(ast) = Max(0, universeSize - estimateOf(ast.child))

\* C37 as stated: the sum of an 'or' is saturated at the universe size, and
\* no estimate exceeds the universe size.
C37_EstimateSaturated ==
  \A ast \in EstimateAsts :
    /\ EstimateStep(ast, TRUE)
    /\ estimateOf(ast) <= universeSize

\* C37: the estimate is the posting size (0 if absent) for eq and present,
\* the minimum of the children for and, the sum of the children for or,
\* which is not saturated and can exceed the universe size, and the
\* universe size minus the child's estimate, never below 0, for not; the
\* estimate of an eq, present or not node never exceeds the universe size.
C37_EstimateRule ==
  \A ast \in EstimateAsts :
    /\ EstimateStep(ast, FALSE)
    /\ ast.kind \in {"eq", "present", "not"} => estimateOf(ast) <= universeSize

\* One doc in two of three postings: the 'or' of the three is estimated at
\* 2 in a universe of 1, the 'and' above it at 1 and the 'not' above it at
\* 0.
C37_Witness ==
  LET type == [kind |-> "eq", key |-> "type", value |-> "skill"]
      t1 == [kind |-> "eq", key |-> "tag", value |-> "t1"]
      either == [kind |-> "or", children |-> <<type, t1, [kind |-> "present", key |-> "endpoint"]>>]
  IN /\ universeSize = 1
     /\ estimateOf(either) = 2
     /\ estimateOf([kind |-> "and", children |-> <<either, type>>]) = 1
     /\ estimateOf([kind |-> "not", child |-> either]) = 0

(***************************************************************************)
(* A cursor-following pagination with the change tailer running: between   *)
(* two page requests the client holds the page it was given (last) while   *)
(* pollChanges applies change rows to the index.                           *)
(***************************************************************************)
\* The first page of a pagination, with and without a filter.
PageFirst ==
  \E filterAst \in {NULL, [kind |-> "eq", key |-> "type", value |-> "skill"]},
     limit \in 1..MaxLimit,
     requester \in {Anonymous, [isAuthenticated |-> TRUE, groups |-> {"g1"}]} :
    Search(filterAst, [limit |-> limit, cursor |-> NULL, q |-> NullStr], requester)

\* core.applyChange({id: row.id, rev: row.rev}, entry) while the client
\* holds a page with a next_cursor.
ApplyBetweenPages(row) ==
  /\ last.op = "search"
  /\ ~last.result.err
  /\ last.result.next_cursor # NullStr
  /\ ingested < MaxIngest
  /\ index' = applyChange(index, [id |-> row.id, rev |-> row.rev], row)
  /\ ingested' = ingested + 1
  /\ applied' = noteApplied(applied, <<row>>)
  /\ assigned' = [ever |-> noteAssigned(assigned.ever, index'),
                  sinceReset |-> noteAssigned(assigned.sinceReset, index')]
  /\ UNCHANGED last
  /\ UNCHANGED daemonVars

TailBetweenPages == \E row \in Entries : ApplyBetweenPages(row)

NextPaging == Startup \/ TailChange \/ PageFirst \/ TailBetweenPages \/ SearchNext \/ Return

SpecPaging == Init /\ [][NextPaging]_vars

\* The ids of the items of a page or of several.
ItemIds(items) == {items[i].entry.id : i \in 1..Len(items)}

\* No id of the page just returned was returned on an earlier page of the
\* pagination.
NoRepeat == ItemIds(last.result.items) \cap ItemIds(last.earlier) = {}

\* Every id returned on an earlier page is held by the index with an
\* updated_at that is not older than the one it was returned with.
NotBackdated ==
  \A i \in 1..Len(last.earlier) :
    /\ StoredEntry(index, last.earlier[i].entry.id) # NULL
    /\ ~StrLess(StoredEntry(index, last.earlier[i].entry.id).updated_at,
                last.earlier[i].entry.updated_at)

\* C38 as stated: with applyChange calls applied between the page requests
\* of one pagination, an id returned on an earlier page is never returned
\* again on a later page.
C38_NoIdReturnedTwice ==
  (last.op = "search" /\ ~last.result.err) => NoRepeat

\* C38: with applyChange calls applied between the page requests of one
\* pagination, an id returned on an earlier page is not returned again on a
\* later page, provided the revision the index holds for that id when the
\* later page is requested does not carry an updated_at older than the one
\* the id was returned with.
C38_NoRepeatUnlessBackdated ==
  (last.op = "search" /\ ~last.result.err
     /\ last.result = search(index, last.filterAst, last.options, last.requester)
     /\ NotBackdated)
    => NoRepeat

\* A second page was served after a change that gave the id of the first
\* page a later revision with a newer updated_at, and the id was not
\* returned again.
C38_Witness ==
  /\ last.op = "search"
  /\ Len(last.earlier) = 1
  /\ NotBackdated
  /\ StrLess(last.earlier[1].entry.updated_at,
             StoredEntry(index, last.earlier[1].entry.id).updated_at)
  /\ StoredEntry(index, last.earlier[1].entry.id).rev > last.earlier[1].entry.rev
  /\ last.result = search(index, last.filterAst, last.options, last.requester)
  /\ NoRepeat

(***************************************************************************)
(* Change rows without a joined entry.                                     *)
(***************************************************************************)
\* The ids the index answers for.
LiveIds(idx) ==
  {id \in DOMAIN idx.idToDoc :
     idx.idToDoc[id] \in idx.universe /\ StoredEntry(idx, id) # NULL}

\* The rows of a batch the row loop went through before it ended: all of
\* them, or those before the row whose handling threw.
loopedRows(rows, failedSeq) ==
  IF failedSeq = 0 THEN rows
  ELSE SubSeq(rows, 1, (CHOOSE k \in 1..Len(rows) : rows[k].seq = failedSeq) - 1)

\* The index after applyChange for the rows that have a joined entry, in
\* order, the others passed over.
RECURSIVE applyPresent(_, _, _)
applyPresent(idx, rows, k) ==
  IF k > Len(rows) THEN idx
  ELSE IF rows[k].entry = NULL THEN applyPresent(idx, rows, k + 1)
  ELSE applyPresent(applyChange(idx, [id |-> rows[k].id, rev |-> rows[k].rev],
                                normalizeEntryRow(rows[k].entry)),
                    rows, k + 1)

\* The cycle of polls[i] goes through the rows of its query in this step.
RowLoopOf(i) ==
  /\ polls[i].pc = "answered"
  /\ last'.op = "pollChanges"
  /\ \/ polls' = RemoveAt(polls, i)
     \/ Len(polls') = Len(polls) /\ polls'[i].pc = "querying"

\* What the row loop leaves: lastSeq at the seq of the last row it reached,
\* rows without a joined entry included, and the index as applyChange for
\* the rows with a joined entry leaves it.
RowLoopEffect(i) ==
  LET rows == polls[i].rows
      failedSeq == last'.failedSeq
  IN /\ lastSeq' = IF failedSeq # 0 THEN failedSeq
                   ELSE IF rows = <<>> THEN lastSeq
                   ELSE rows[Len(rows)].seq
     /\ index' = applyPresent(index, loopedRows(rows, failedSeq), 1)
     /\ (\A k \in 1..Len(rows) : rows[k].entry = NULL) => index' = index

\* C39: a change row whose joined entry is absent advances last_seq to its
\* seq and leaves the index unchanged; applyChange with a null entry is a
\* no-op; and the set of live ids never shrinks, as no delete is ever
\* synthesized.
C39_NullRowLeavesIndex ==
  /\ [](\A id \in Ids, rev \in Revs :
          applyChange(index, [id |-> id, rev |-> rev], NULL) = index)
  /\ [][\A i \in 1..Len(polls) : RowLoopOf(i) => RowLoopEffect(i)]_vars
  /\ [][LiveIds(index) \subseteq LiveIds(index')]_vars

\* A cycle went through a batch that ends with a row without a joined
\* entry: lastSeq is at that row, which was not handed to applyChange, and
\* the index holds an entry.
C39_Witness ==
  /\ last.op = "pollChanges"
  /\ ~last.error
  /\ lastSeq > last.since
  /\ lastSeq \in 1..Len(changes)
  /\ changes[lastSeq].seq = lastSeq
  /\ changes[lastSeq].entry = NULL
  /\ LiveIds(index) # {}

====
